---- MODULE Spec2Model ----
(***************************************************************************)
(* State-machine model of the three core components of the host:           *)
(*   - EventBus      (src/src/core/EventBus.cpp)                           *)
(*   - IndexManager  (src/src/core/IndexManager.cpp)                       *)
(*   - PluginManager (src/src/core/PluginManager.cpp)                      *)
(* Each component has its own specification (SpecBus, SpecIndex,           *)
(* SpecPlugin); the components share no state, so a component's actions    *)
(* leave the other components' variables unchanged.                        *)
(***************************************************************************)
EXTENDS Integers, Sequences, FiniteSets, TLC

VARIABLES
    \* ---- EventBus ----
    subscriptions,   \* std::vector<Subscription> subscriptions_
    eventQueue,      \* std::priority_queue<EventQueueItem> eventQueue_ (heap array)
    stats,           \* Stats stats_
    globalFilters,   \* globalFilters_ : plugin name -> enabled
    eventFilters,    \* eventFilters_  : event type -> source filter
    mutexOwner,      \* who holds mutex_
    clientPc,        \* the calling thread: "idle", or "deadlocked" inside emitEvent
    workerPc,        \* position of processingLoop
    workerItem,      \* the EventQueueItem the worker popped
    lastOp,          \* observation: the last public call, its result, the callbacks it ran
    scenario,        \* observation: what has touched the statistics since they were fresh
    subscribedKeys,  \* observation: keys registered by a successful subscribe(), still held
    running,         \* std::atomic<bool> running_
    notified,        \* eventCondition_ : a notification has reached the blocked worker
    dtorPc,          \* position of ~EventBus: "alive" until it is called
    memory,          \* the heap: address -> bytes of the buffer at that address
    payloadAtEmit,   \* observation: address of a queued payload -> the bytes the caller's
                     \*              buffer held when emitEventAsync was called
    subsAtEmit,      \* observation: subscriptions_ when emitEventAsync last returned
    subsAtTake,      \* observation: subscriptions_ when the worker last popped an event
    workerCalls,     \* observation: the subscriptions the worker's last processEvent invoked
    \* ---- IndexManager ----
    files,           \* the file system: path -> file or NoFile
    clock,           \* the time, in minutes
    db,              \* db_ is open
    filesTable,      \* table files of the database: path -> row or NoRow
    fileHashes,      \* fileHashes_ : path -> hash, NoEntry when absent
    hashCache,       \* hashCache_  : path -> time the hash was computed, NoTime when absent
    maxFileSize,     \* maxFileSize_
    lastIdx,         \* observation: the last IndexManager call and its result
    indexedContent,  \* observation: path -> the bytes the file held when indexFile last
                     \*              succeeded on it, NoEntry when not (or no longer) indexed
    connectionPool,  \* connectionPool_ : the secondary connections, each with its inUse
    held,            \* the callers: thread -> the connection getConnection gave it and it
                     \*              has not returned yet
    \* ---- PluginManager ----
    loadedPlugins,   \* loadedPlugins_ : key -> LoadedPlugin
    openHandles,     \* the dynamic loader: path -> dlopen handles not yet dlclosed
    pluginErrors,    \* pluginErrors_
    lastPlg,         \* observation: the last PluginManager call and its result
    removedFiles,    \* the paths whose module file was deleted from the disk
    pluginDirectories,       \* pluginDirectories_
    userPluginDirectory,     \* userPluginDirectory_
    projectPluginDirectory,  \* projectPluginDirectory_
    dirsOnDisk,      \* the directories that exist on the disk
    addedAt,         \* observation: directory -> the number of the last
                     \*              addPluginDirectory call that found it on the disk,
                     \*              0 when there was none
    addCount         \* observation: the addPluginDirectory calls made so far

busVars == <<subscriptions, eventQueue, stats, globalFilters, eventFilters,
             mutexOwner, clientPc, workerPc, workerItem, lastOp, scenario,
             subscribedKeys>>

poolVars == <<connectionPool, held>>

idxVars == <<files, clock, db, filesTable, fileHashes, hashCache, maxFileSize,
             lastIdx, indexedContent, poolVars>>

dirVars == <<pluginDirectories, userPluginDirectory, projectPluginDirectory,
             dirsOnDisk, addedAt, addCount>>

plgVars == <<loadedPlugins, openHandles, pluginErrors, lastPlg, removedFiles, dirVars>>

lifeVars == <<running, notified, dtorPc>>

lateVars == <<subsAtEmit, subsAtTake, workerCalls>>

memVars == <<memory, payloadAtEmit, lateVars>>

vars == <<busVars, lifeVars, memVars, idxVars, plgVars>>

(***************************************************************************)
(* Error codes (api/ragger_plugin_api.h)                                   *)
(***************************************************************************)
RAGGER_SUCCESS == 0
RAGGER_ERROR_INVALID_ARGUMENT == -1
RAGGER_ERROR_FILE_NOT_FOUND == -3
RAGGER_ERROR_PLUGIN_LOAD_FAILED == -4
RAGGER_ERROR_ABI_VERSION_MISMATCH == -6
RAGGER_ERROR_OPERATION_NOT_SUPPORTED == -7

\* a call that never returned to its caller
NoReturn == 1
\* a call an exception left without a return value
Thrown == 2

(***************************************************************************)
(*                              EVENT BUS                                  *)
(***************************************************************************)

\* bounds of the model
MaxSubs == 2      \* subscriptions held at once
MaxEmit == 2      \* emissions counted by the statistics before the caller stops emitting
MaxSyncEmit == 1  \* the same, where the order of dispatch is what is examined
MaxQueue == 2     \* events the caller leaves queued at once

EVENT_FILE_PARSED == 3
EVENT_CODEBLOCK_INDEXED == 4
EventTypes == {EVENT_FILE_PARSED, EVENT_CODEBLOCK_INDEXED}

\* Callbacks are function pointers. cbA and cbB only record that they ran.
\* cbChain re-enters the bus: on EVENT_FILE_PARSED it calls
\* emitEventAsync(EVENT_CODEBLOCK_INDEXED) on the same bus.
NullCallback == "nullptr"
Callbacks == {"cbA", "cbB", "cbChain"}
UserDatas == {"ud0", "ud1"}
DefaultPriority == 0
SubPriorities == {0, 10}

\* const char* arguments: a null pointer or a string
NullStr == "nullptr"
PluginNames == {"pA", "pB"}
SubFilterArgs == {NullStr, "pA"}

EventData == [type : EventTypes, sourcePlugin : PluginNames \cup {NullStr}]
NullEvent == [type |-> 0, sourcePlugin |-> NullStr]

\* filter ? std::string(filter) : ""
FilterString(filter) == IF filter = NullStr THEN "" ELSE filter

Subscription(type, callback, userData, priority, filter) ==
    [type |-> type, callback |-> callback, userData |-> userData,
     priority |-> priority, filter |-> FilterString(filter), enabled |-> TRUE]

FreshStats ==
    [totalEventsEmitted |-> 0, totalEventsProcessed |-> 0, eventsDropped |-> 0,
     eventsByType |-> [t \in EventTypes |-> 0]]

FreshScenario == [syncEmits |-> [t \in EventTypes |-> 0], pure |-> TRUE]

NoOp == [op |-> "none", ret |-> RAGGER_SUCCESS, event |-> NullEvent,
         dropped |-> FALSE, calls |-> <<>>, nestedFailed |-> FALSE]

Op(name, ret) == [NoOp EXCEPT !.op = name, !.ret = ret]

\* ---- std::priority_queue over a std::vector (libstdc++ heap algorithms) ----
\* EventQueueItem::operator<
ItemLess(a, b) == a.priority < b.priority

\* std::__push_heap: sift value up from holeIndex (0-based) towards topIndex
RECURSIVE PushHeapFrom(_, _, _, _)
PushHeapFrom(h, holeIndex, topIndex, value) ==
    LET parent == (holeIndex - 1) \div 2 IN
    IF holeIndex > topIndex /\ ItemLess(h[parent + 1], value)
    THEN PushHeapFrom([h EXCEPT ![holeIndex + 1] = h[parent + 1]], parent, topIndex, value)
    ELSE [h EXCEPT ![holeIndex + 1] = value]

\* priority_queue::push : push_back, then push_heap
HeapPush(h, item) == PushHeapFrom(Append(h, item), Len(h), 0, item)

\* std::__adjust_heap: move the hole down along the larger children
RECURSIVE AdjustHeapDown(_, _, _, _)
AdjustHeapDown(h, holeIndex, secondChild, len) ==
    IF secondChild < (len - 1) \div 2
    THEN LET sc  == 2 * (secondChild + 1)
             sc2 == IF ItemLess(h[sc + 1], h[sc]) THEN sc - 1 ELSE sc
         IN AdjustHeapDown([h EXCEPT ![holeIndex + 1] = h[sc2 + 1]], sc2, sc2, len)
    ELSE IF len % 2 = 0 /\ secondChild = (len - 2) \div 2
         THEN LET sc == 2 * (secondChild + 1)
              IN [heap |-> [h EXCEPT ![holeIndex + 1] = h[sc]], hole |-> sc - 1]
         ELSE [heap |-> h, hole |-> holeIndex]

\* priority_queue::top
HeapTop(h) == h[1]

\* priority_queue::pop : pop_heap, then pop_back
HeapPop(h) ==
    LET n == Len(h) IN
    IF n = 1 THEN <<>>
    ELSE LET value == h[n]
             rest  == SubSeq(h, 1, n - 1)
             down  == AdjustHeapDown(rest, 0, 0, n - 1)
         IN PushHeapFrom(down.heap, down.hole, 0, value)

\* ---- matching and dispatch ----
\* EventBus::Subscription::matches
Matches(sub, event) ==
    /\ sub.enabled
    /\ (sub.filter # "" =>
          (event.sourcePlugin # NullStr /\ sub.filter = event.sourcePlugin))

\* EventBus::findMatchingSubscriptions
\* (faulty variant: every subscription of the list matches, whatever its type)
MatchEveryType(subs, event) ==
    SelectSeq(subs, LAMBDA sub : Matches(sub, event))
findMatchingSubscriptions(subs, event) ==
    SelectSeq(subs, LAMBDA sub : sub.type = event.type /\ Matches(sub, event))

\* EventBus::shouldProcessEvent. An absent globalFilters_ entry reads as enabled,
\* an absent eventFilters_ entry as the empty string: the code reads both alike.
shouldProcessEvent(event) ==
    /\ (event.sourcePlugin # NullStr => globalFilters[event.sourcePlugin])
    /\ (eventFilters[event.type] # "" =>
          ~(event.sourcePlugin # NullStr /\ eventFilters[event.type] # event.sourcePlugin))

\* std::sort with comparator a->priority > b->priority, as libstdc++ runs it:
\* introsort partitions ranges longer than SortThreshold, then one insertion
\* sort finishes the vector. Index arguments are 0-based, as the iterators.
RECURSIVE InsertByPriority(_, _)
InsertByPriority(sorted, sub) ==
    IF sorted = <<>> THEN <<sub>>
    ELSE LET last == sorted[Len(sorted)] IN
         IF sub.priority > last.priority
         THEN Append(InsertByPriority(SubSeq(sorted, 1, Len(sorted) - 1), sub), last)
         ELSE Append(sorted, sub)

\* std::__final_insertion_sort
RECURSIVE InsertionSort(_)
InsertionSort(seq) ==
    IF seq = <<>> THEN <<>>
    ELSE InsertByPriority(InsertionSort(SubSeq(seq, 1, Len(seq) - 1)), seq[Len(seq)])

\* _S_threshold
SortThreshold == 16

\* the comparator of processEvent, on the elements at two positions
Comp(a, i, j) == a[i + 1].priority > a[j + 1].priority

\* std::iter_swap
IterSwap(a, i, j) == [a EXCEPT ![i + 1] = a[j + 1], ![j + 1] = a[i + 1]]

\* std::__move_median_to_first
MoveMedianToFirst(a, result, x, y, z) ==
    IF Comp(a, x, y)
    THEN IF Comp(a, y, z) THEN IterSwap(a, result, y)
         ELSE IF Comp(a, x, z) THEN IterSwap(a, result, z)
         ELSE IterSwap(a, result, x)
    ELSE IF Comp(a, x, z) THEN IterSwap(a, result, x)
         ELSE IF Comp(a, y, z) THEN IterSwap(a, result, z)
         ELSE IterSwap(a, result, y)

\* while (comp(first, pivot)) ++first
RECURSIVE ScanUp(_, _, _)
ScanUp(a, first, pivot) ==
    IF Comp(a, first, pivot) THEN ScanUp(a, first + 1, pivot) ELSE first

\* while (comp(pivot, last)) --last
RECURSIVE ScanDown(_, _, _)
ScanDown(a, last, pivot) ==
    IF Comp(a, pivot, last) THEN ScanDown(a, last - 1, pivot) ELSE last

\* std::__unguarded_partition: the vector and the cut
RECURSIVE UnguardedPartition(_, _, _, _)
UnguardedPartition(a, first, last, pivot) ==
    LET f == ScanUp(a, first, pivot)
        l == ScanDown(a, last - 1, pivot)
    IN IF ~(f < l) THEN [seq |-> a, cut |-> f]
       ELSE UnguardedPartition(IterSwap(a, f, l), f + 1, l, pivot)

\* std::__unguarded_partition_pivot
UnguardedPartitionPivot(a, first, last) ==
    LET mid == first + (last - first) \div 2 IN
    UnguardedPartition(MoveMedianToFirst(a, first, first + 1, mid, last - 1),
                       first + 1, last, first)

\* std::__introsort_loop. Its depth limit, 2 * floor(lg n), is not reached on
\* the vectors of the model: a range of SortThreshold + 2 elements is
\* partitioned at most twice.
RECURSIVE IntrosortLoop(_, _, _)
IntrosortLoop(a, first, last) ==
    IF last - first > SortThreshold
    THEN LET p == UnguardedPartitionPivot(a, first, last)
         IN IntrosortLoop(IntrosortLoop(p.seq, p.cut, last), first, p.cut)
    ELSE a

\* faulty variant: the matching subscriptions are left in registration order
KeepRegistrationOrder(seq) == seq

SortByPriority(seq) == InsertionSort(IntrosortLoop(seq, 0, Len(seq)))

\* what a callback does besides running: cbChain re-enters the bus
\* what a callback throws: "cbThrow" a std::runtime_error, "cbThrowOther" an
\* object of a type that does not derive from std::exception
FaultyCallbacks == {"cbThrow", "cbThrowOther"}
CaughtByBus(sub) == sub.callback # "cbThrowOther"

Reenters(sub, event) == sub.callback = "cbChain" /\ event.type = EVENT_FILE_PARSED
ChainedEvent(event) ==
    [type |-> EVENT_CODEBLOCK_INDEXED, sourcePlugin |-> event.sourcePlugin]

\* Locking a std::mutex the calling thread already owns is undefined behaviour:
\* the thread blocks forever, or lock() throws std::system_error.
RelockOutcomes == {"deadlock", "throw"}

\* EventBus::processEvent as run by emitEvent, which holds mutex_ throughout.
\* Returns the callbacks invoked, whether a nested call threw, and whether the
\* thread is stuck inside a callback.
RECURSIVE InvokeLocked(_, _, _, _)
InvokeLocked(subs, event, outcome, acc) ==
    IF subs = <<>> THEN acc
    ELSE LET sub == Head(subs) IN
         IF ~sub.enabled THEN InvokeLocked(Tail(subs), event, outcome, acc)
         ELSE LET ran == [acc EXCEPT !.calls = Append(@, sub)] IN
              IF ~CaughtByBus(sub)
              THEN [ran EXCEPT !.escaped = TRUE]
              ELSE IF Reenters(sub, event)
              THEN IF outcome = "deadlock"
                   THEN [ran EXCEPT !.stuck = TRUE]
                   ELSE InvokeLocked(Tail(subs), event, outcome,
                                     [ran EXCEPT !.nestedFailed = TRUE])
              ELSE InvokeLocked(Tail(subs), event, outcome, ran)

processEventLocked(event, outcome) ==
    InvokeLocked(SortByPriority(findMatchingSubscriptions(subscriptions, event)),
                 event, outcome,
                 [calls |-> <<>>, nestedFailed |-> FALSE, stuck |-> FALSE,
                  escaped |-> FALSE])

\* the statistics update shared by emitEvent and processingLoop
\* faulty variant: the counter of the event's type is not incremented
CountTotalOnly(st, type) == [st EXCEPT !.totalEventsProcessed = @ + 1]

CountProcessed(st, type) ==
    [st EXCEPT !.totalEventsProcessed = @ + 1, !.eventsByType[type] = @ + 1]

\* faulty variant: a filtered-out event is counted as processed as well
CountDroppedAndProcessed(st) ==
    [st EXCEPT !.eventsDropped = @ + 1, !.totalEventsProcessed = @ + 1]

CountDropped(st) == [st EXCEPT !.eventsDropped = @ + 1]


\* EventBus::emitEventAsync from the point where mutex_ is held: the effect on
\* the queue and the statistics
EnqueueLocked(queue, st, event) ==
    IF ~shouldProcessEvent(event)
    THEN [queue |-> queue, stats |-> CountDropped(st)]
    ELSE [queue |-> HeapPush(queue, [event |-> event, priority |-> 0]),
          stats |-> [st EXCEPT !.totalEventsEmitted = @ + 1]]

\* EventBus::processEvent as run by processingLoop, which has released mutex_.
\* A re-entrant callback takes mutex_ itself; it blocks while another thread
\* holds it.
RECURSIVE InvokeUnlocked(_, _, _)
InvokeUnlocked(subs, event, acc) ==
    IF subs = <<>> THEN acc
    ELSE LET sub == Head(subs) IN
         IF ~sub.enabled THEN InvokeUnlocked(Tail(subs), event, acc)
         ELSE LET ran == [acc EXCEPT !.calls = Append(@, sub)] IN
              IF Reenters(sub, event)
              THEN IF mutexOwner # "none"
                   THEN [ran EXCEPT !.stuck = TRUE]
                   ELSE LET q == EnqueueLocked(ran.queue, ran.stats, ChainedEvent(event))
                        IN InvokeUnlocked(Tail(subs), event,
                                          [ran EXCEPT !.queue = q.queue, !.stats = q.stats])
              ELSE InvokeUnlocked(Tail(subs), event, ran)

processEventUnlocked(event) ==
    InvokeUnlocked(SortByPriority(findMatchingSubscriptions(subscriptions, event)),
                   event,
                   [calls |-> <<>>, queue |-> eventQueue, stats |-> stats, stuck |-> FALSE])

\* the caller stops emitting once the counters reach the bound
EmitAllowed(cap) ==
    /\ stats.totalEventsEmitted + stats.totalEventsProcessed + stats.eventsDropped < cap
    /\ Len(eventQueue) < MaxQueue

Spoiled == [FreshScenario EXCEPT !.pure = FALSE]

\* ---- public operations, called from the client thread ----
\* EventBus::emitEvent
EmitEvent(event) ==
    /\ clientPc = "idle"
    /\ IF event = NullEvent
       THEN /\ lastOp' = Op("emitEvent", RAGGER_ERROR_INVALID_ARGUMENT)
            /\ UNCHANGED <<stats, mutexOwner, clientPc, scenario>>
       ELSE /\ mutexOwner = "none"
            /\ IF ~shouldProcessEvent(event)
               THEN /\ stats' = CountDropped(stats)
                    /\ lastOp' = [Op("emitEvent", RAGGER_SUCCESS) EXCEPT
                                     !.event = event, !.dropped = TRUE]
                    /\ scenario' = Spoiled
                    /\ UNCHANGED <<mutexOwner, clientPc>>
               ELSE \E outcome \in RelockOutcomes :
                      LET r == processEventLocked(event, outcome) IN
                      IF r.stuck
                      THEN /\ clientPc' = "deadlocked"
                           /\ mutexOwner' = "client"
                           /\ lastOp' = [Op("emitEvent", NoReturn) EXCEPT
                                            !.event = event, !.calls = r.calls]
                           /\ scenario' = Spoiled
                           /\ UNCHANGED stats
                      ELSE IF r.escaped
                      THEN /\ lastOp' = [Op("emitEvent", Thrown) EXCEPT
                                            !.event = event, !.calls = r.calls]
                           /\ scenario' = Spoiled
                           /\ UNCHANGED <<stats, mutexOwner, clientPc>>
                      ELSE /\ stats' = CountProcessed(stats, event.type)
                           /\ lastOp' = [Op("emitEvent", RAGGER_SUCCESS) EXCEPT
                                            !.event = event, !.calls = r.calls,
                                            !.nestedFailed = r.nestedFailed]
                           /\ scenario' =
                                IF scenario.pure /\ Len(r.calls) = 1
                                THEN [scenario EXCEPT !.syncEmits[event.type] = @ + 1]
                                ELSE Spoiled
                           /\ UNCHANGED <<mutexOwner, clientPc>>
    /\ UNCHANGED <<subscriptions, eventQueue, globalFilters, eventFilters,
                   workerPc, workerItem>>

\* EventBus::emitEventAsync
EmitEventAsync(event) ==
    /\ clientPc = "idle"
    /\ IF event = NullEvent
       THEN /\ lastOp' = Op("emitEventAsync", RAGGER_ERROR_INVALID_ARGUMENT)
            /\ UNCHANGED <<stats, eventQueue, scenario>>
       ELSE /\ mutexOwner = "none"
            /\ LET q == EnqueueLocked(eventQueue, stats, event) IN
               /\ eventQueue' = q.queue
               /\ stats' = q.stats
            /\ lastOp' = [Op("emitEventAsync", RAGGER_SUCCESS) EXCEPT
                             !.event = event, !.dropped = ~shouldProcessEvent(event)]
            /\ scenario' = Spoiled
    /\ UNCHANGED <<subscriptions, globalFilters, eventFilters, mutexOwner, clientPc,
                   workerPc, workerItem>>

NeverSameKey(sub, type, callback, userData) == FALSE
SameKey(sub, type, callback, userData) ==
    sub.type = type /\ sub.callback = callback /\ sub.userData = userData

\* EventBus::subscribe
Subscribe(type, callback, userData, priority, filter) ==
    /\ clientPc = "idle"
    /\ IF callback = NullCallback
       THEN /\ lastOp' = Op("subscribe", RAGGER_ERROR_INVALID_ARGUMENT)
            /\ UNCHANGED subscriptions
       ELSE /\ mutexOwner = "none"
            /\ IF \E i \in 1..Len(subscriptions) :
                     SameKey(subscriptions[i], type, callback, userData)
               THEN /\ lastOp' = Op("subscribe", RAGGER_ERROR_INVALID_ARGUMENT)
                    /\ UNCHANGED subscriptions
               ELSE /\ subscriptions' =
                         Append(subscriptions,
                                Subscription(type, callback, userData, priority, filter))
                    /\ lastOp' = Op("subscribe", RAGGER_SUCCESS)
    /\ UNCHANGED <<eventQueue, stats, globalFilters, eventFilters, mutexOwner, clientPc,
                   workerPc, workerItem, scenario>>

\* faulty variant: the type of the registration is not looked at
SameCallback(sub, type, callback) == sub.callback = callback

\* the registrations EventBus::unsubscribe removes
SameTypeAndCallback(sub, type, callback) == sub.type = type /\ sub.callback = callback

\* EventBus::unsubscribe
Unsubscribe(type, callback) ==
    /\ clientPc = "idle"
    /\ IF callback = NullCallback
       THEN /\ lastOp' = Op("unsubscribe", RAGGER_ERROR_INVALID_ARGUMENT)
            /\ UNCHANGED subscriptions
       ELSE /\ mutexOwner = "none"
            /\ LET kept == SelectSeq(subscriptions,
                                     LAMBDA sub : ~SameTypeAndCallback(sub, type, callback))
               IN IF Len(kept) # Len(subscriptions)
                  THEN /\ subscriptions' = kept
                       /\ lastOp' = Op("unsubscribe", RAGGER_SUCCESS)
                  ELSE /\ lastOp' = Op("unsubscribe", RAGGER_ERROR_INVALID_ARGUMENT)
                       /\ UNCHANGED subscriptions
    /\ UNCHANGED <<eventQueue, stats, globalFilters, eventFilters, mutexOwner, clientPc,
                   workerPc, workerItem, scenario>>

RECURSIVE PushAll(_, _, _, _, _, _)
PushAll(subs, types, callback, userData, priority, filter) ==
    IF types = <<>> THEN subs
    ELSE PushAll(Append(subs, Subscription(Head(types), callback, userData, priority, filter)),
                 Tail(types), callback, userData, priority, filter)

\* EventBus::subscribeMultiple (types = <<>> stands for a null array or numTypes == 0)
SubscribeMultiple(types, callback, userData, priority, filter) ==
    /\ clientPc = "idle"
    /\ IF types = <<>> \/ callback = NullCallback
       THEN /\ lastOp' = Op("subscribeMultiple", RAGGER_ERROR_INVALID_ARGUMENT)
            /\ UNCHANGED subscriptions
       ELSE /\ mutexOwner = "none"
            /\ subscriptions' =
                 PushAll(subscriptions, types, callback, userData, priority, filter)
            /\ lastOp' = Op("subscribeMultiple", RAGGER_SUCCESS)
    /\ UNCHANGED <<eventQueue, stats, globalFilters, eventFilters, mutexOwner, clientPc,
                   workerPc, workerItem, scenario>>

\* EventBus::unsubscribeAll
UnsubscribeAll(callback) ==
    /\ clientPc = "idle"
    /\ IF callback = NullCallback
       THEN /\ lastOp' = Op("unsubscribeAll", RAGGER_ERROR_INVALID_ARGUMENT)
            /\ UNCHANGED subscriptions
       ELSE /\ mutexOwner = "none"
            /\ subscriptions' = SelectSeq(subscriptions, LAMBDA sub : sub.callback # callback)
            /\ lastOp' = Op("unsubscribeAll", RAGGER_SUCCESS)
    /\ UNCHANGED <<eventQueue, stats, globalFilters, eventFilters, mutexOwner, clientPc,
                   workerPc, workerItem, scenario>>

\* EventBus::setGlobalFilter
SetGlobalFilter(pluginName, enabled) ==
    /\ clientPc = "idle"
    /\ IF pluginName = NullStr
       THEN UNCHANGED globalFilters
       ELSE /\ mutexOwner = "none"
            /\ globalFilters' = [globalFilters EXCEPT ![pluginName] = enabled]
    /\ lastOp' = Op("setGlobalFilter", RAGGER_SUCCESS)
    /\ UNCHANGED <<subscriptions, eventQueue, stats, eventFilters, mutexOwner, clientPc,
                   workerPc, workerItem, scenario>>

\* EventBus::setEventFilter
SetEventFilter(type, filter) ==
    /\ clientPc = "idle"
    /\ mutexOwner = "none"
    /\ eventFilters' = [eventFilters EXCEPT ![type] = FilterString(filter)]
    /\ lastOp' = Op("setEventFilter", RAGGER_SUCCESS)
    /\ UNCHANGED <<subscriptions, eventQueue, stats, globalFilters, mutexOwner, clientPc,
                   workerPc, workerItem, scenario>>

\* EventBus::resetStats
ResetStats ==
    /\ clientPc = "idle"
    /\ mutexOwner = "none"
    /\ stats' = FreshStats
    /\ scenario' = IF workerPc = "wait" /\ eventQueue = <<>> THEN FreshScenario ELSE Spoiled
    /\ lastOp' = Op("resetStats", RAGGER_SUCCESS)
    /\ UNCHANGED <<subscriptions, eventQueue, globalFilters, eventFilters, mutexOwner,
                   clientPc, workerPc, workerItem>>

\* ---- EventBus::processingLoop, the background worker ----
NoItem == [event |-> NullEvent, priority |-> 0]

\* wait until the queue is non-empty, then top() + pop() under mutex_, unlock
WorkerTake ==
    /\ workerPc = "wait"
    /\ eventQueue # <<>>
    /\ mutexOwner = "none"
    /\ workerItem' = HeapTop(eventQueue)
    /\ eventQueue' = HeapPop(eventQueue)
    /\ workerPc' = "dispatch"
    /\ UNCHANGED <<subscriptions, stats, globalFilters, eventFilters, mutexOwner,
                   clientPc, lastOp, scenario>>

\* processEvent(item.event.get()) with mutex_ released
WorkerDispatch ==
    /\ workerPc = "dispatch"
    /\ LET r == processEventUnlocked(workerItem.event) IN
       /\ eventQueue' = r.queue
       /\ stats' = r.stats
       /\ workerPc' = IF r.stuck THEN "blocked" ELSE "record"
       /\ scenario' = IF r.stats # stats THEN Spoiled ELSE scenario
    /\ UNCHANGED <<subscriptions, globalFilters, eventFilters, mutexOwner, clientPc,
                   workerItem, lastOp>>

\* lock.lock(); statistics; then the next item of the inner loop, or back to wait
WorkerRecord ==
    /\ workerPc = "record"
    /\ mutexOwner = "none"
    /\ stats' = CountProcessed(stats, workerItem.event.type)
    /\ scenario' = Spoiled
    /\ IF eventQueue # <<>>
       THEN /\ workerItem' = HeapTop(eventQueue)
            /\ eventQueue' = HeapPop(eventQueue)
            /\ workerPc' = "dispatch"
       ELSE /\ workerItem' = NoItem
            /\ workerPc' = "wait"
            /\ UNCHANGED eventQueue
    /\ UNCHANGED <<subscriptions, globalFilters, eventFilters, mutexOwner, clientPc, lastOp>>

\* ---- processingLoop at the grain of its wait, and the destructor ----
\* workerPc "wait" is the top of the loop; the steps below replace WorkerTake
\* where running_ and the condition variable matter.

\* while (running_)
LoopTest ==
    /\ workerPc = "wait"
    /\ workerPc' = IF running THEN "lock" ELSE "exited"
    /\ UNCHANGED <<subscriptions, eventQueue, stats, globalFilters, eventFilters,
                   mutexOwner, clientPc, workerItem, lastOp, scenario, lifeVars>>

\* unique_lock lock(mutex_), or the relock of a notified wait; then the wait
\* predicate, evaluated with mutex_ held
WaitPredicate ==
    /\ workerPc = "lock"
    /\ mutexOwner = "none"
    /\ mutexOwner' = "worker"
    /\ workerPc' = IF eventQueue # <<>> \/ ~running THEN "woken" ELSE "blocking"
    /\ UNCHANGED <<subscriptions, eventQueue, stats, globalFilters, eventFilters,
                   clientPc, workerItem, lastOp, scenario, lifeVars>>

\* the predicate was false: wait(lock) releases mutex_ and blocks
WaitBlock ==
    /\ workerPc = "blocking"
    /\ workerPc' = "sleeping"
    /\ mutexOwner' = "none"
    /\ UNCHANGED <<subscriptions, eventQueue, stats, globalFilters, eventFilters,
                   clientPc, workerItem, lastOp, scenario, lifeVars>>

\* a notification unblocks the wait, which goes on to relock mutex_
WaitWake ==
    /\ workerPc = "sleeping"
    /\ notified
    /\ notified' = FALSE
    /\ workerPc' = "lock"
    /\ UNCHANGED <<subscriptions, eventQueue, stats, globalFilters, eventFilters,
                   mutexOwner, clientPc, workerItem, lastOp, scenario, running, dtorPc>>

\* if (!running_) break; otherwise the first top/pop of the inner loop and
\* lock.unlock()
AfterWait ==
    /\ workerPc = "woken"
    /\ mutexOwner' = "none"
    /\ IF ~running
       THEN /\ workerPc' = "exited"
            /\ UNCHANGED <<eventQueue, workerItem>>
       ELSE /\ workerItem' = HeapTop(eventQueue)
            /\ eventQueue' = HeapPop(eventQueue)
            /\ workerPc' = "dispatch"
    /\ UNCHANGED <<subscriptions, stats, globalFilters, eventFilters, clientPc,
                   lastOp, scenario, lifeVars>>

\* eventCondition_.notify_one / notify_all: it reaches the worker only if the
\* worker is blocked in the wait at that moment
Notify == IF workerPc = "sleeping" THEN TRUE ELSE notified

\* emitEventAsync with its notify_one
EmitEventAsyncNotify(event) ==
    /\ EmitEventAsync(event)
    /\ notified' = IF event # NullEvent /\ shouldProcessEvent(event)
                   THEN Notify ELSE notified
    /\ UNCHANGED <<running, dtorPc>>

\* ~EventBus: running_ = false
DestroySignal ==
    /\ dtorPc = "alive"
    /\ clientPc = "idle"
    /\ running' = FALSE
    /\ dtorPc' = "signalled"
    /\ UNCHANGED <<busVars, notified>>

\* ~EventBus: eventCondition_.notify_all()
DestroyNotify ==
    /\ dtorPc = "signalled"
    /\ notified' = Notify
    /\ dtorPc' = "join"
    /\ UNCHANGED <<busVars, running>>

\* ~EventBus: processingThread_.join() returns once processingLoop has returned
DestroyJoin ==
    /\ dtorPc = "join"
    /\ workerPc = "exited"
    /\ dtorPc' = "done"
    /\ UNCHANGED <<busVars, running, notified>>

\* ---- the payload of an event: EventData::data, EventData::dataSize ----
\* Addresses are numbers: NullPtr, the caller's buffer, and the buffers
\* emitEventAsync allocates, which nothing frees.
NullPtr == 0
CallerBuf == 1
Addrs == 1..(MaxEmit + 1)
Payloads == {"ab", "cd"}
Unallocated == "unallocated"
Freed == "freed"

\* new char[event->dataSize]: the lowest address not yet handed out
NewBuffer(mem) == CHOOSE a \in Addrs : mem[a] = Unallocated /\ \A b \in Addrs : b < a => mem[b] # Unallocated

\* emitEventAsync: new EventData(*event) and the copy of the payload
ShareBuffer(event, mem) == [event |-> event, memory |-> mem]
CopyEvent(event, mem) ==
    IF event.data # NullPtr
    THEN [event  |-> [event EXCEPT !.data = NewBuffer(mem)],
          memory |-> [mem EXCEPT ![NewBuffer(mem)] = mem[event.data]]]
    ELSE [event |-> event, memory |-> mem]

\* emitEventAsync of an event that carries a payload
EmitEventAsyncPayload(event) ==
    LET c == CopyEvent(event, memory) IN
    /\ event.data # NullPtr => memory[event.data] \in Payloads
    /\ EmitEventAsync(c.event)
    /\ IF shouldProcessEvent(event)
       THEN /\ memory' = c.memory
            /\ payloadAtEmit' =
                 IF event.data # NullPtr
                 THEN [payloadAtEmit EXCEPT ![c.event.data] = memory[event.data]]
                 ELSE payloadAtEmit
       ELSE UNCHANGED memVars

\* the caller writes other bytes into its buffer (or allocates it again)
OverwriteBuffer(bytes) ==
    /\ memory[CallerBuf] # bytes
    /\ memory' = [memory EXCEPT ![CallerBuf] = bytes]
    /\ UNCHANGED <<busVars, payloadAtEmit>>

\* the caller frees its buffer
FreeBuffer ==
    /\ memory[CallerBuf] # Freed
    /\ memory' = [memory EXCEPT ![CallerBuf] = Freed]
    /\ UNCHANGED <<busVars, payloadAtEmit>>

\* EventBus::EventBus
InitBus ==
    /\ subscriptions = <<>>
    /\ eventQueue = <<>>
    /\ stats = FreshStats
    /\ globalFilters = [p \in PluginNames |-> TRUE]
    /\ eventFilters = [t \in EventTypes |-> ""]
    /\ mutexOwner = "none"
    /\ clientPc = "idle"
    /\ workerPc = "wait"
    /\ workerItem = NoItem
    /\ lastOp = NoOp
    /\ scenario = FreshScenario
    /\ subscribedKeys = {}
    /\ running = TRUE
    /\ notified = FALSE
    /\ dtorPc = "alive"
    /\ memory = [a \in Addrs |-> IF a = CallerBuf THEN "ab" ELSE Unallocated]
    /\ payloadAtEmit = [a \in Addrs |-> Unallocated]
    /\ subsAtEmit = <<>>
    /\ subsAtTake = <<>>
    /\ workerCalls = <<>>

\* ---- specifications of the bus ----
\* the caller stops subscribing at MaxSubs subscriptions
RoomFor(n) == Len(subscriptions) + n <= MaxSubs

TypeArrays == {<<>>} \cup {<<t>> : t \in EventTypes} \cup (EventTypes \X EventTypes)

\* Synchronous dispatch: subscriptions, filters, emitEvent and the statistics.
\* Nothing is queued, so the worker stays in its wait.
SyncCallbacks == {"cbA", "cbB"}
SyncSources == {NullStr, "pA"}
SyncEvents == [type : EventTypes, sourcePlugin : SyncSources]

\* the subscriber side of the dispatch-order specification: one context,
\* every priority, no subscriber filter
NextBus ==
    /\ \/ \E event \in SyncEvents : EmitAllowed(MaxSyncEmit) /\ EmitEvent(event)
       \/ EmitEvent(NullEvent)
       \/ \E type \in EventTypes, callback \in SyncCallbacks, priority \in SubPriorities :
             RoomFor(1) /\ Subscribe(type, callback, "ud0", priority, NullStr)
       \/ Subscribe(EVENT_FILE_PARSED, NullCallback, "ud0", DefaultPriority, NullStr)
       \/ \E type \in EventTypes, callback \in SyncCallbacks : Unsubscribe(type, callback)
       \/ \E types \in TypeArrays \ {<<>>}, callback \in SyncCallbacks,
             priority \in SubPriorities :
             RoomFor(Len(types)) /\ SubscribeMultiple(types, callback, "ud0", priority, NullStr)
       \/ \E callback \in SyncCallbacks : UnsubscribeAll(callback)
       \/ \E enabled \in BOOLEAN : SetGlobalFilter("pA", enabled)
       \/ ResetStats
    /\ UNCHANGED subscribedKeys
    /\ UNCHANGED <<lifeVars, memVars, idxVars, plgVars>>

\* Registration keys: subscribe(type, callback, userData) with the default
\* priority and no filter, subscribeMultiple with and without a filter, every
\* context; subscribedKeys follows the keys that subscribe() accepted.
Key(sub) == <<sub.type, sub.callback, sub.userData>>

NextBusKeys ==
  /\ UNCHANGED <<lifeVars, memVars, idxVars, plgVars>>
  /\
    \/ /\ \/ \E event \in SyncEvents : EmitAllowed(MaxSyncEmit) /\ EmitEvent(event)
          \/ \E types \in TypeArrays, callback \in SyncCallbacks, userData \in UserDatas,
                filter \in SubFilterArgs :
                /\ RoomFor(Len(types))
                /\ SubscribeMultiple(types, callback, userData, DefaultPriority, filter)
          \/ \E enabled \in BOOLEAN : SetGlobalFilter("pA", enabled)
       /\ UNCHANGED subscribedKeys
    \/ \E type \in EventTypes, callback \in SyncCallbacks \cup {NullCallback},
          userData \in UserDatas :
          /\ RoomFor(1)
          /\ Subscribe(type, callback, userData, DefaultPriority, NullStr)
          /\ subscribedKeys' = IF lastOp'.ret = RAGGER_SUCCESS
                               THEN subscribedKeys \cup {<<type, callback, userData>>}
                               ELSE subscribedKeys
    \/ \E type \in EventTypes, callback \in SyncCallbacks :
          /\ Unsubscribe(type, callback)
          /\ subscribedKeys' = {k \in subscribedKeys : ~(k[1] = type /\ k[2] = callback)}
    \/ \E callback \in SyncCallbacks :
          /\ UnsubscribeAll(callback)
          /\ subscribedKeys' = {k \in subscribedKeys : k[2] # callback}

\* Asynchronous delivery and re-entrant callbacks: both emit paths, the worker,
\* and the callback cbChain that calls back into the bus.
AsyncCallbacks == {"cbA", "cbChain"}
AsyncEvents == [type : EventTypes, sourcePlugin : {"pA"}]

NextBusAsync ==
    /\ \/ \E event \in AsyncEvents : EmitAllowed(MaxEmit) /\ EmitEvent(event)
       \/ \E event \in AsyncEvents : EmitAllowed(MaxEmit) /\ EmitEventAsync(event)
       \/ \E type \in EventTypes, callback \in AsyncCallbacks :
             RoomFor(1) /\ Subscribe(type, callback, "ud0", DefaultPriority, NullStr)
       \/ \E type \in EventTypes, callback \in AsyncCallbacks : Unsubscribe(type, callback)
       \/ ResetStats
       \/ WorkerTake
       \/ WorkerDispatch
       \/ WorkerRecord
    /\ UNCHANGED subscribedKeys
    /\ UNCHANGED <<lifeVars, memVars, idxVars, plgVars>>

\* Rejected calls: subscribe with a null or an already registered callback and
\* the emit calls with a null event, among accepted emissions and the worker.
NextBusErrors ==
    /\ \/ \E event \in AsyncEvents \cup {NullEvent} :
             EmitAllowed(MaxEmit) /\ EmitEvent(event)
       \/ \E event \in AsyncEvents \cup {NullEvent} :
             EmitAllowed(MaxEmit) /\ EmitEventAsync(event)
       \/ \E type \in EventTypes, callback \in {"cbA", NullCallback}, userData \in UserDatas :
             RoomFor(1) /\ Subscribe(type, callback, userData, DefaultPriority, NullStr)
       \/ WorkerTake \/ WorkerDispatch \/ WorkerRecord
    /\ UNCHANGED subscribedKeys
    /\ UNCHANGED <<lifeVars, memVars, idxVars, plgVars>>

\* Payloads: asynchronous emissions with and without a payload, the caller
\* rewriting and freeing its buffer, one subscriber, and the worker.
PayloadEvents == [type : {EVENT_FILE_PARSED}, sourcePlugin : {"pA"}, data : {NullPtr, CallerBuf}]

NextBusPayload ==
    /\ \/ /\ \/ \E event \in PayloadEvents :
                   EmitAllowed(MaxEmit) /\ EmitEventAsyncPayload(event)
             \/ \E bytes \in Payloads : OverwriteBuffer(bytes)
             \/ FreeBuffer
          /\ UNCHANGED lateVars
       \/ /\ \/ /\ RoomFor(1)
                /\ Subscribe(EVENT_FILE_PARSED, "cbA", "ud0", DefaultPriority, NullStr)
             \/ \E enabled \in BOOLEAN : SetGlobalFilter("pA", enabled)
             \/ WorkerTake \/ WorkerDispatch \/ WorkerRecord
          /\ UNCHANGED memVars
    /\ UNCHANGED subscribedKeys
    /\ UNCHANGED <<lifeVars, idxVars, plgVars>>

\* Subscriptions changing while an event is queued: asynchronous emissions of
\* one type, two callbacks subscribing and unsubscribing, one of them to either type,
\* and the worker, with
\* the subscription list observed at the emission, at the pop and at the
\* dispatch.
LateKeys == {<<EVENT_FILE_PARSED, "cbA">>, <<EVENT_FILE_PARSED, "cbB">>,
             <<EVENT_CODEBLOCK_INDEXED, "cbB">>}
LateEvents == [type : {EVENT_FILE_PARSED}, sourcePlugin : {"pA"}]

NextBusLate ==
    /\ \/ \E event \in LateEvents :
             /\ EmitAllowed(MaxEmit)
             /\ EmitEventAsync(event)
             /\ subsAtEmit' = subscriptions
             /\ UNCHANGED <<subsAtTake, workerCalls>>
       \/ \E key \in LateKeys :
             /\ RoomFor(1)
             /\ Subscribe(key[1], key[2], "ud0", DefaultPriority, NullStr)
             /\ UNCHANGED lateVars
       \/ \E key \in LateKeys :
             Unsubscribe(key[1], key[2]) /\ UNCHANGED lateVars
       \/ /\ WorkerTake
          /\ subsAtTake' = subscriptions
          /\ UNCHANGED <<subsAtEmit, workerCalls>>
       \/ /\ WorkerDispatch
          /\ workerCalls' = processEventUnlocked(workerItem.event).calls
          /\ UNCHANGED <<subsAtEmit, subsAtTake>>
       \/ /\ WorkerRecord
          /\ subsAtTake' = subscriptions
          /\ UNCHANGED <<subsAtEmit, workerCalls>>
    /\ UNCHANGED subscribedKeys
    /\ UNCHANGED <<lifeVars, memory, payloadAtEmit, idxVars, plgVars>>

\* Faulting subscribers: callbacks that throw among one that does not, at
\* either priority, under synchronous emissions.
NextBusFaults ==
    /\ \/ \E event \in AsyncEvents : EmitAllowed(MaxEmit) /\ EmitEvent(event)
       \/ \E callback \in FaultyCallbacks \cup {"cbA"}, priority \in SubPriorities :
             /\ RoomFor(1)
             /\ Subscribe(EVENT_FILE_PARSED, callback, "ud0", priority, NullStr)
       \/ \E callback \in FaultyCallbacks \cup {"cbA"} : UnsubscribeAll(callback)
    /\ UNCHANGED subscribedKeys
    /\ UNCHANGED <<lifeVars, memVars, idxVars, plgVars>>

\* Many subscribers of one event type: the contexts of ManyContexts are
\* registered in turn, all at the default priority but for at most one, up to
\* MaxMany subscriptions, and an event of the type is emitted.
MaxMany == 17
ManyContexts ==
    <<"ud01", "ud02", "ud03", "ud04", "ud05", "ud06", "ud07", "ud08", "ud09", "ud10",
      "ud11", "ud12", "ud13", "ud14", "ud15", "ud16", "ud17", "ud18", "ud19", "ud20">>

NextBusMany ==
    /\ \/ \E priority \in SubPriorities :
             /\ Len(subscriptions) < MaxMany
             /\ priority # DefaultPriority =>
                   \A i \in 1..Len(subscriptions) : subscriptions[i].priority # priority
             /\ Subscribe(EVENT_FILE_PARSED, "cbA", ManyContexts[Len(subscriptions) + 1],
                          priority, NullStr)
       \/ \E event \in AsyncEvents : EmitAllowed(MaxSyncEmit) /\ EmitEvent(event)
    /\ UNCHANGED subscribedKeys
    /\ UNCHANGED <<lifeVars, memVars, idxVars, plgVars>>

\* The three filters together: the global switch of a plugin, the source filter
\* of an event type and the source filter of a subscription, under emissions
\* from either plugin and from no plugin.
FilterEvents == [type : {EVENT_FILE_PARSED}, sourcePlugin : PluginNames \cup {NullStr}]

NextBusFilters ==
    /\ \/ \E event \in FilterEvents : EmitAllowed(MaxEmit) /\ EmitEvent(event)
       \/ \E filter \in SubFilterArgs, userData \in UserDatas :
             /\ RoomFor(1)
             /\ Subscribe(EVENT_FILE_PARSED, "cbA", userData, DefaultPriority, filter)
       \/ \E enabled \in BOOLEAN : SetGlobalFilter("pA", enabled)
       \/ \E filter \in {NullStr, "pA", "pB"} : SetEventFilter(EVENT_FILE_PARSED, filter)
    /\ UNCHANGED subscribedKeys
    /\ UNCHANGED <<lifeVars, memVars, idxVars, plgVars>>

\* Destruction: emitters and one plain subscriber while the bus is alive, the
\* worker at the grain of its wait, and the destructor.
NextBusDestroy ==
    /\ \/ /\ dtorPc = "alive"
          /\ \/ \E event \in AsyncEvents :
                   EmitAllowed(MaxEmit) /\ EmitEventAsyncNotify(event)
             \/ /\ RoomFor(1)
                /\ Subscribe(EVENT_FILE_PARSED, "cbA", "ud0", DefaultPriority, NullStr)
                /\ UNCHANGED lifeVars
       \/ LoopTest \/ WaitPredicate \/ WaitBlock \/ WaitWake \/ AfterWait
       \/ WorkerDispatch /\ UNCHANGED lifeVars
       \/ WorkerRecord /\ UNCHANGED lifeVars
       \/ DestroySignal \/ DestroyNotify \/ DestroyJoin
    /\ UNCHANGED subscribedKeys
    /\ UNCHANGED <<memVars, idxVars, plgVars>>

\* Filtering and counting: both emit paths under the global and the per-type
\* filters, with the worker.
StatsEvents == [type : EventTypes, sourcePlugin : SyncSources]

NextBusStats ==
    /\ \/ \E event \in StatsEvents : EmitAllowed(MaxEmit) /\ EmitEvent(event)
       \/ \E event \in StatsEvents : EmitAllowed(MaxEmit) /\ EmitEventAsync(event)
       \/ EmitEventAsync(NullEvent)
       \/ \E callback \in AsyncCallbacks :
             RoomFor(1) /\ Subscribe(EVENT_FILE_PARSED, callback, "ud0", DefaultPriority, NullStr)
       \/ \E enabled \in BOOLEAN : SetGlobalFilter("pA", enabled)
       \/ \E filter \in {NullStr, "pB"} : SetEventFilter(EVENT_CODEBLOCK_INDEXED, filter)
       \/ WorkerTake
       \/ WorkerDispatch
       \/ WorkerRecord
    /\ UNCHANGED subscribedKeys
    /\ UNCHANGED <<lifeVars, memVars, idxVars, plgVars>>

(***************************************************************************)
(*                            INDEX MANAGER                                *)
(***************************************************************************)

\* bounds of the model
MaxClock == 10    \* minutes the clock runs

CacheTtlMinutes == 5
DefaultMaxFileSize == 10485760

IndexPaths == {"a.cpp", "b.h"}
Contents == {"hello", "hello!"}
NoFile == [content |-> "", readable |-> FALSE, exists |-> FALSE]
NoTime == -1
NoEntry == "noentry"
NoRow == [hash |-> "", last_indexed |-> NoTime, file_size |-> 0]
EmptyHash == ""

\* a regular file: its bytes, and whether it can be opened for reading
FileStates == [content : Contents, readable : BOOLEAN, exists : {TRUE}]

\* fs::file_size
FileSize(content) == IF content = "hello" THEN 5 ELSE 6

\* filePath.extension()
Extension(path) ==
    CASE path = "a.cpp" -> ".cpp"
      [] path = "b.h"   -> ".h"
      [] OTHER          -> ".txt"

SupportedExts == {".cpp", ".cxx", ".cc", ".c", ".hpp", ".hxx", ".h",
                  ".py", ".java", ".js", ".ts", ".rs", ".go"}

\* SHA-256 of the bytes, in hex: a fixed, collision-free function of the content
\* that is never the empty string
Sha256Hex(content) ==
    IF content = "hello"
    THEN "2cf24dba5fb0a30e26e83b2ac5b9e29e1b161e5c1fa7425e73043362938b9824"
    ELSE "ce06092fb948d9ffac7d1a376e404b26b7575bcc11ee05a4615fef4fec3a308b"

\* IndexManager::shouldIndexFile (the file exists)
shouldIndexFile(path) ==
    /\ ~(FileSize(files[path].content) > maxFileSize)
    /\ Extension(path) \in SupportedExts

\* IndexManager::calculateFileHash: the hash returned, and fileHashes_ and
\* hashCache_ as the call leaves them
calculateFileHash(path, hashes, cache) ==
    IF /\ hashes[path] # NoEntry
       /\ cache[path] # NoTime
       /\ files[path] # NoFile            \* fs::last_write_time throws on a missing file
       /\ clock - cache[path] < CacheTtlMinutes
    THEN [hash |-> hashes[path], hashes |-> hashes, cache |-> cache]
    ELSE IF files[path] = NoFile \/ ~files[path].readable
         THEN [hash |-> EmptyHash, hashes |-> hashes, cache |-> cache]
         ELSE LET hashStr == Sha256Hex(files[path].content) IN
              [hash   |-> hashStr,
               hashes |-> [hashes EXCEPT ![path] = hashStr],
               cache  |-> [cache EXCEPT ![path] = clock]]

\* IndexManager::needsReindexing: the answer, and the maps as the call leaves them
AlwaysReindex(path, hashes, cache) ==
    LET c == calculateFileHash(path, hashes, cache)
    IN [answer |-> TRUE, hashes |-> c.hashes, cache |-> c.cache]
needsReindexing(path, hashes, cache) ==
    LET c == calculateFileHash(path, hashes, cache)
        answer == IF c.hash = EmptyHash THEN TRUE
                  ELSE IF c.hashes[path] = NoEntry THEN TRUE
                  ELSE c.hashes[path] # c.hash
    IN [answer |-> answer, hashes |-> c.hashes, cache |-> c.cache]

\* IndexManager::deleteFileRecords: every statement fails to prepare on a closed
\* database
deleteFileRecords(path, table) ==
    IF ~db THEN [ret |-> RAGGER_ERROR_OPERATION_NOT_SUPPORTED, table |-> table]
    ELSE [ret |-> RAGGER_SUCCESS, table |-> [table EXCEPT ![path] = NoRow]]

\* IndexManager::insertFileRecord
insertFileRecord(path, hash, table) ==
    IF ~db THEN [ret |-> RAGGER_ERROR_OPERATION_NOT_SUPPORTED, table |-> table]
    ELSE [ret |-> RAGGER_SUCCESS,
          table |-> [table EXCEPT ![path] =
                        [hash |-> hash, last_indexed |-> clock,
                         file_size |-> FileSize(files[path].content)]]]

\* recorded: for indexFile, fileHashes_[path] as the call found it
IdxOp(name, path, ret) ==
    [op |-> name, path |-> path, ret |-> ret, answer |-> FALSE, recorded |-> NoEntry]
NoCall == IdxOp("none", NoEntry, RAGGER_SUCCESS)
IndexFileOp(path, ret) ==
    [IdxOp("indexFile", path, ret) EXCEPT !.recorded = fileHashes[path]]

\* IndexManager::indexFile
IndexFile(path) ==
    IF files[path] = NoFile
    THEN /\ lastIdx' = IndexFileOp(path, RAGGER_ERROR_FILE_NOT_FOUND)
         /\ UNCHANGED <<filesTable, fileHashes, hashCache, indexedContent>>
    ELSE IF ~shouldIndexFile(path)
    THEN /\ lastIdx' = IndexFileOp(path, RAGGER_SUCCESS)
         /\ UNCHANGED <<filesTable, fileHashes, hashCache, indexedContent>>
    ELSE LET n == needsReindexing(path, fileHashes, hashCache) IN
         IF ~n.answer
         THEN /\ lastIdx' = IndexFileOp(path, RAGGER_SUCCESS)
              /\ fileHashes' = n.hashes
              /\ hashCache' = n.cache
              /\ indexedContent' = [indexedContent EXCEPT ![path] = files[path].content]
              /\ UNCHANGED filesTable
         ELSE LET c == calculateFileHash(path, n.hashes, n.cache) IN
              IF c.hash = EmptyHash
              THEN /\ lastIdx' = IndexFileOp(path, RAGGER_ERROR_OPERATION_NOT_SUPPORTED)
                   /\ fileHashes' = c.hashes
                   /\ hashCache' = c.cache
                   /\ UNCHANGED <<filesTable, indexedContent>>
              ELSE LET d == deleteFileRecords(path, filesTable)
                       r == insertFileRecord(path, c.hash, d.table)
                   IN /\ filesTable' = r.table
                      /\ hashCache' = c.cache
                      /\ IF r.ret # RAGGER_SUCCESS
                         THEN /\ lastIdx' = IndexFileOp(path, r.ret)
                              /\ fileHashes' = c.hashes
                              /\ UNCHANGED indexedContent
                         ELSE /\ lastIdx' = IndexFileOp(path, RAGGER_SUCCESS)
                              /\ fileHashes' = [c.hashes EXCEPT ![path] = c.hash]
                              /\ indexedContent' =
                                   [indexedContent EXCEPT ![path] = files[path].content]

IndexFileCall(path) ==
    /\ IndexFile(path)
    /\ UNCHANGED <<files, clock, db, maxFileSize>>

\* IndexManager::needsReindexing, called by the client
NeedsReindexingCall(path) ==
    /\ LET n == needsReindexing(path, fileHashes, hashCache) IN
       /\ fileHashes' = n.hashes
       /\ hashCache' = n.cache
       /\ lastIdx' = [IdxOp("needsReindexing", path, RAGGER_SUCCESS) EXCEPT
                         !.answer = n.answer]
    /\ UNCHANGED <<files, clock, db, filesTable, maxFileSize, indexedContent>>

\* IndexManager::removeFromIndex
RemoveFromIndex(path) ==
    /\ LET d == deleteFileRecords(path, filesTable) IN
       /\ filesTable' = d.table
       /\ lastIdx' = IdxOp("removeFromIndex", path, d.ret)
       /\ IF d.ret = RAGGER_SUCCESS
          THEN /\ fileHashes' = [fileHashes EXCEPT ![path] = NoEntry]
               /\ indexedContent' = [indexedContent EXCEPT ![path] = NoEntry]
          ELSE UNCHANGED <<fileHashes, indexedContent>>
    /\ UNCHANGED <<files, clock, db, hashCache, maxFileSize>>

\* IndexManager::rebuildIndex
RebuildIndex ==
    /\ filesTable' = IF db THEN [p \in IndexPaths |-> NoRow] ELSE filesTable
    /\ fileHashes' = [p \in IndexPaths |-> NoEntry]
    /\ indexedContent' = [p \in IndexPaths |-> NoEntry]
    /\ lastIdx' = NoCall
    /\ UNCHANGED <<files, clock, db, hashCache, maxFileSize>>

\* ---- the connection pool ----
MaxInits == 2         \* initialize calls made without a shutdown in between

\* the size of the pool
MAX_CONNECTIONS == 2

Threads == {"t1", "t2", "t3"}

\* what a caller holds: nothing, the primary connection db_, or the pooled
\* connection at a position of connectionPool_
NoConnection == -1
Primary == 0

\* DatabaseConnection as initializeConnectionPool pushes it
DatabaseConnection == [inUse |-> FALSE]

\* IndexManager::initializeConnectionPool, sqlite3_open succeeding for opened
\* of the MAX_CONNECTIONS connections
initializeConnectionPool(pool, opened) ==
    pool \o [i \in 1..opened |-> DatabaseConnection]

\* IndexManager::cleanupConnectionPool
cleanupConnectionPool(pool) == <<>>

\* IndexManager::getConnection: the connection returned and the pool as the
\* call leaves it
GiveWithoutMarking(pool) ==
    LET free == {i \in 1..Len(pool) : ~pool[i].inUse} IN
    IF free = {} THEN [db |-> Primary, pool |-> pool]
    ELSE LET i == CHOOSE k \in free : \A l \in free : k <= l IN
         [db |-> i, pool |-> pool]
getConnection(pool) ==
    LET free == {i \in 1..Len(pool) : ~pool[i].inUse} IN
    IF free = {} THEN [db |-> Primary, pool |-> pool]
    ELSE LET i == CHOOSE k \in free : \A l \in free : k <= l IN
         [db |-> i, pool |-> [pool EXCEPT ![i].inUse = TRUE]]

\* IndexManager::returnConnection
returnConnection(pool, conn) ==
    IF conn \in 1..Len(pool) THEN [pool EXCEPT ![conn].inUse = FALSE] ELSE pool

\* a thread without a connection calls getConnection
GetConnection(t) ==
    /\ held[t] = NoConnection
    /\ LET g == getConnection(connectionPool) IN
       /\ connectionPool' = g.pool
       /\ held' = [held EXCEPT ![t] = g.db]
    /\ UNCHANGED <<files, clock, db, filesTable, fileHashes, hashCache, maxFileSize,
                   lastIdx, indexedContent>>

\* a thread gives back the connection it holds
ReturnConnection(t) ==
    /\ held[t] # NoConnection
    /\ connectionPool' = returnConnection(connectionPool, held[t])
    /\ held' = [held EXCEPT ![t] = NoConnection]
    /\ UNCHANGED <<files, clock, db, filesTable, fileHashes, hashCache, maxFileSize,
                   lastIdx, indexedContent>>

\* IndexManager::initialize, the database opening without error and opened of
\* the pooled connections opening
InitializeWith(opened) ==
    /\ db' = TRUE
    /\ connectionPool' = initializeConnectionPool(connectionPool, opened)
    /\ lastIdx' = NoCall
    /\ UNCHANGED <<files, clock, filesTable, fileHashes, hashCache, maxFileSize,
                   indexedContent, held>>

\* IndexManager::initialize, the database and every pooled connection opening
\* without error
Initialize == InitializeWith(MAX_CONNECTIONS)

\* IndexManager::initialize, sqlite3_open failing on the database: db_ is left
\* unusable and the call returns before the pool is touched
InitializeOpenFails ==
    /\ db' = FALSE
    /\ lastIdx' = IdxOp("initialize", NoEntry, RAGGER_ERROR_OPERATION_NOT_SUPPORTED)
    /\ UNCHANGED <<files, clock, filesTable, fileHashes, hashCache, maxFileSize,
                   indexedContent, connectionPool, held>>

\* IndexManager::initialize, createTables failing: the pool was opened, and
\* shutdown closes it again
InitializeTablesFail ==
    /\ db' = FALSE
    /\ connectionPool' =
          cleanupConnectionPool(initializeConnectionPool(connectionPool, MAX_CONNECTIONS))
    /\ fileHashes' = [p \in IndexPaths |-> NoEntry]
    /\ lastIdx' = IdxOp("initialize", NoEntry, RAGGER_ERROR_OPERATION_NOT_SUPPORTED)
    /\ UNCHANGED <<files, clock, filesTable, hashCache, maxFileSize, indexedContent, held>>

\* IndexManager::shutdown
Shutdown ==
    /\ db' = FALSE
    /\ connectionPool' = cleanupConnectionPool(connectionPool)
    /\ fileHashes' = [p \in IndexPaths |-> NoEntry]
    /\ lastIdx' = NoCall
    /\ UNCHANGED <<files, clock, filesTable, hashCache, maxFileSize, indexedContent, held>>

\* IndexManager::setMaxFileSize
SetMaxFileSize(maxSize) ==
    /\ maxFileSize' = maxSize
    /\ lastIdx' = NoCall
    /\ UNCHANGED <<files, clock, db, filesTable, fileHashes, hashCache, indexedContent>>

\* ---- the environment: the file system and the clock ----
WriteFile(path, content) ==
    /\ files' = [files EXCEPT ![path] = [content |-> content, readable |-> TRUE, exists |-> TRUE]]
    /\ lastIdx' = NoCall
    /\ UNCHANGED <<clock, db, filesTable, fileHashes, hashCache, maxFileSize, indexedContent>>

DeleteFile(path) ==
    /\ files[path] # NoFile
    /\ files' = [files EXCEPT ![path] = NoFile]
    /\ lastIdx' = NoCall
    /\ UNCHANGED <<clock, db, filesTable, fileHashes, hashCache, maxFileSize, indexedContent>>

\* chmod: the file can no longer, or can again, be opened for reading
SetReadable(path, readable) ==
    /\ files[path] # NoFile
    /\ files' = [files EXCEPT ![path].readable = readable]
    /\ lastIdx' = NoCall
    /\ UNCHANGED <<clock, db, filesTable, fileHashes, hashCache, maxFileSize, indexedContent>>

\* time passes
Tick(minutes) ==
    /\ clock' = clock + minutes
    /\ lastIdx' = NoCall
    /\ UNCHANGED <<files, db, filesTable, fileHashes, hashCache, maxFileSize, indexedContent>>

\* IndexManager::IndexManager, over a file system that holds any of the files
InitIndex ==
    /\ files \in [IndexPaths -> {NoFile, [content |-> "hello", readable |-> TRUE, exists |-> TRUE]}]
    /\ clock = 0
    /\ db = FALSE
    /\ filesTable = [p \in IndexPaths |-> NoRow]
    /\ fileHashes = [p \in IndexPaths |-> NoEntry]
    /\ hashCache = [p \in IndexPaths |-> NoTime]
    /\ maxFileSize = DefaultMaxFileSize
    /\ lastIdx = NoCall
    /\ indexedContent = [p \in IndexPaths |-> NoEntry]
    /\ connectionPool = <<>>
    /\ held = [t \in Threads |-> NoConnection]

\* IndexManager::indexFile as a function of the catalog st (table, hashes,
\* cache, content): the result and the catalog as the call leaves it
indexFile(path, st) ==
    IF files[path] = NoFile
    THEN [st EXCEPT !.ret = RAGGER_ERROR_FILE_NOT_FOUND]
    ELSE IF ~shouldIndexFile(path)
    THEN [st EXCEPT !.ret = RAGGER_SUCCESS]
    ELSE LET n == needsReindexing(path, st.hashes, st.cache) IN
         IF ~n.answer
         THEN [st EXCEPT !.ret = RAGGER_SUCCESS, !.hashes = n.hashes, !.cache = n.cache,
                         !.content[path] = files[path].content]
         ELSE LET c == calculateFileHash(path, n.hashes, n.cache) IN
              IF c.hash = EmptyHash
              THEN [st EXCEPT !.ret = RAGGER_ERROR_OPERATION_NOT_SUPPORTED,
                              !.hashes = c.hashes, !.cache = c.cache]
              ELSE LET d == deleteFileRecords(path, st.table)
                       r == insertFileRecord(path, c.hash, d.table)
                   IN IF r.ret # RAGGER_SUCCESS
                      THEN [st EXCEPT !.ret = r.ret, !.table = r.table,
                                      !.hashes = c.hashes, !.cache = c.cache]
                      ELSE [st EXCEPT !.ret = RAGGER_SUCCESS, !.table = r.table,
                                      !.hashes = [c.hashes EXCEPT ![path] = c.hash],
                                      !.cache = c.cache,
                                      !.content[path] = files[path].content]

\* the directory tree: proj holds a.cpp and the directory proj/sub, which holds
\* b.h; no directory is called missing
Directories == {"proj", "proj/sub", "missing"}
DirectoryExists(directory) == directory # "missing"
Under(directory, path) ==
    \/ directory = "proj"
    \/ directory = "proj/sub" /\ path = "b.h"

\* IndexManager::discoverFiles: the regular files under the directory that
\* shouldIndexFile accepts
discoverFiles(directory) ==
    {path \in IndexPaths :
        Under(directory, path) /\ files[path] # NoFile /\ shouldIndexFile(path)}

\* the orders in which fs::recursive_directory_iterator may list the files
ListingsOf(found) ==
    {order \in [1..Cardinality(found) -> found] :
        \A i, j \in 1..Cardinality(found) : i # j => order[i] # order[j]}

\* the loop of IndexManager::indexDirectory over the files listed
RECURSIVE IndexEach(_, _, _)
IndexEach(listing, i, st) ==
    IF i > Len(listing) THEN st
    ELSE LET r == indexFile(listing[i], st) IN
         IndexEach(listing, i + 1,
                   [r EXCEPT !.indexedCount =
                                IF r.ret = RAGGER_SUCCESS THEN @ + 1 ELSE @])

\* IndexManager::indexDirectory
IndexDirectory(directory) ==
    /\ IF ~DirectoryExists(directory)
       THEN /\ lastIdx' = IdxOp("indexDirectory", directory, RAGGER_ERROR_FILE_NOT_FOUND)
            /\ UNCHANGED <<filesTable, fileHashes, hashCache, indexedContent>>
       ELSE \E listing \in ListingsOf(discoverFiles(directory)) :
              LET r == IndexEach(listing, 1,
                                 [ret |-> RAGGER_SUCCESS, indexedCount |-> 0,
                                  table |-> filesTable, hashes |-> fileHashes,
                                  cache |-> hashCache, content |-> indexedContent])
              IN /\ lastIdx' = IdxOp("indexDirectory", directory, r.indexedCount)
                 /\ filesTable' = r.table
                 /\ fileHashes' = r.hashes
                 /\ hashCache' = r.cache
                 /\ indexedContent' = r.content
    /\ UNCHANGED <<files, clock, db, maxFileSize>>

NextIndexDirectory ==
    /\ \/ \E directory \in Directories : IndexDirectory(directory) /\ UNCHANGED poolVars
       \/ connectionPool = <<>> /\ Initialize
       \/ \E maxSize \in {FileSize("hello"), DefaultMaxFileSize} :
             SetMaxFileSize(maxSize) /\ UNCHANGED poolVars
       \/ \E path \in IndexPaths, content \in Contents :
             WriteFile(path, content) /\ UNCHANGED poolVars
       \/ \E path \in IndexPaths, readable \in BOOLEAN :
             SetReadable(path, readable) /\ UNCHANGED poolVars
       \/ \E minutes \in {CacheTtlMinutes} :
             clock + minutes <= MaxClock /\ Tick(minutes) /\ UNCHANGED poolVars
    /\ UNCHANGED <<busVars, lifeVars, memVars, plgVars>>

\* initialize is called here on a manager whose pool is empty
NextIndex ==
    /\ \/ \E path \in IndexPaths : IndexFileCall(path) /\ UNCHANGED poolVars
       \/ \E path \in IndexPaths : NeedsReindexingCall(path) /\ UNCHANGED poolVars
       \/ \E path \in IndexPaths : RemoveFromIndex(path) /\ UNCHANGED poolVars
       \/ RebuildIndex /\ UNCHANGED poolVars
       \/ connectionPool = <<>> /\ Initialize
       \/ Shutdown
       \/ \E maxSize \in {FileSize("hello"), DefaultMaxFileSize} :
             SetMaxFileSize(maxSize) /\ UNCHANGED poolVars
       \/ \E path \in IndexPaths, content \in Contents :
             WriteFile(path, content) /\ UNCHANGED poolVars
       \/ \E path \in IndexPaths : DeleteFile(path) /\ UNCHANGED poolVars
       \/ \E path \in IndexPaths, readable \in BOOLEAN :
             SetReadable(path, readable) /\ UNCHANGED poolVars
       \/ \E minutes \in {CacheTtlMinutes} :
             clock + minutes <= MaxClock /\ Tick(minutes) /\ UNCHANGED poolVars
    /\ UNCHANGED <<busVars, lifeVars, memVars, plgVars>>

\* no caller holds a connection
NoneLent == \A t \in Threads : held[t] = NoConnection

\* the connection pool under several callers; the pool is closed, by shutdown
\* or by an initialize that fails, when no caller holds a connection
NextIndexPool ==
    /\ \/ \E opened \in 0..MAX_CONNECTIONS :
             /\ Len(connectionPool) + opened <= MaxInits * MAX_CONNECTIONS
             /\ InitializeWith(opened)
       \/ InitializeOpenFails
       \/ NoneLent /\ InitializeTablesFail
       \/ NoneLent /\ Shutdown
       \/ \E t \in Threads : GetConnection(t)
       \/ \E t \in Threads : ReturnConnection(t)
    /\ UNCHANGED <<busVars, lifeVars, memVars, plgVars>>

(***************************************************************************)
(*                            PLUGIN MANAGER                               *)
(***************************************************************************)

\* bounds of the model
MaxErrors == 2    \* entries pluginErrors_ grows to

RAGGER_PLUGIN_ABI_VERSION == 100
OldAbiVersion == 99
NoAbi == -1

PluginPaths == {"lib/alpha.so", "user/alpha.so", "lib/beta.so", "lib/old.so",
                "lib/nosym.so", "lib/noinit.so", "lib/failinit.so",
                "lib/readme.so", "lib/gone.so"}

\* what a plugin file is: whether it exists, whether dlopen accepts it, whether
\* it exports the four metadata functions, what these answer, whether it
\* exports plugin_initialize and plugin_shutdown, and what plugin_initialize
\* returns
Module(exists, isLibrary, hasMetadata, abiVersion, name, hasInitialize, initResult, hasShutdown) ==
    [exists |-> exists, isLibrary |-> isLibrary, hasMetadata |-> hasMetadata,
     abiVersion |-> abiVersion, name |-> name, hasInitialize |-> hasInitialize,
     initResult |-> initResult, hasShutdown |-> hasShutdown]

ModuleFiles(path) ==
    CASE path = "lib/alpha.so" ->
            Module(TRUE, TRUE, TRUE, RAGGER_PLUGIN_ABI_VERSION, "alpha", TRUE,
                   RAGGER_SUCCESS, TRUE)
      [] path = "user/alpha.so" ->
            Module(TRUE, TRUE, TRUE, OldAbiVersion, "alpha", TRUE, RAGGER_SUCCESS, TRUE)
      [] path = "lib/beta.so" ->
            Module(TRUE, TRUE, TRUE, RAGGER_PLUGIN_ABI_VERSION, "alpha", TRUE,
                   RAGGER_SUCCESS, FALSE)
      [] path = "lib/old.so" ->
            Module(TRUE, TRUE, TRUE, OldAbiVersion, "old", TRUE, RAGGER_SUCCESS, FALSE)
      [] path = "lib/nosym.so" ->
            Module(TRUE, TRUE, FALSE, NoAbi, "", TRUE, RAGGER_SUCCESS, TRUE)
      [] path = "lib/noinit.so" ->
            Module(TRUE, TRUE, TRUE, RAGGER_PLUGIN_ABI_VERSION, "noinit", FALSE,
                   RAGGER_SUCCESS, TRUE)
      [] path = "lib/failinit.so" ->
            Module(TRUE, TRUE, TRUE, RAGGER_PLUGIN_ABI_VERSION, "failinit", TRUE,
                   RAGGER_ERROR_INVALID_ARGUMENT, TRUE)
      [] path = "lib/readme.so" ->
            Module(TRUE, FALSE, FALSE, NoAbi, "", FALSE, RAGGER_SUCCESS, FALSE)
      [] OTHER ->
            Module(FALSE, FALSE, FALSE, NoAbi, "", FALSE, RAGGER_SUCCESS, FALSE)

\* the module a path holds now: a deleted file no longer exists for
\* fs::exists, while an image already opened stays as it was loaded
Modules(path) ==
    [ModuleFiles(path) EXCEPT !.exists = @ /\ path \notin removedFiles]

\* PluginManager::extractPluginNameFromPath: the file name without directory
\* and extension
extractPluginNameFromPath(path) ==
    CASE path \in {"lib/alpha.so", "user/alpha.so"} -> "alpha"
      [] path = "lib/beta.so"     -> "beta"
      [] path = "lib/old.so"      -> "old"
      [] path = "lib/nosym.so"    -> "nosym"
      [] path = "lib/noinit.so"   -> "noinit"
      [] path = "lib/failinit.so" -> "failinit"
      [] path = "lib/readme.so"   -> "readme"
      [] OTHER                    -> "gone"

PluginKeys == {extractPluginNameFromPath(path) : path \in PluginPaths}

\* faulty variant: the handle is never given back to the loader
KeepHandle(path, handles) == handles

\* dlopen and dlclose on the loader's count of open handles
dlopen(path, handles) == [handles EXCEPT ![path] = @ + 1]
dlclose(path, handles) == [handles EXCEPT ![path] = @ - 1]

\* PluginManager::reportPluginError
reportPluginError(errors, pluginName, errorCode) ==
    Append(errors, [pluginName |-> pluginName, errorCode |-> errorCode])

\* the optional entry points a module exports besides those of Modules
ExportsRegisterEvents(path) == path \in {"lib/alpha.so", "lib/failinit.so", "lib/noinit.so"}
ExportsGetCapabilities(path) == path \in {"lib/alpha.so", "lib/beta.so", "lib/failinit.so"}

\* the entry points PluginManager::loadPluginLibrary calls in the module
MetadataCalls(path) ==
    IF Modules(path).isLibrary /\ Modules(path).hasMetadata
    THEN <<"plugin_get_abi_version", "plugin_get_name", "plugin_get_version",
           "plugin_get_description">>
    ELSE <<>>

\* the entry points PluginManager::initializePlugin calls in the module
InitializeCalls(path) ==
    IF ~Modules(path).hasInitialize THEN <<>>
    ELSE <<"plugin_initialize">> \o
         (IF Modules(path).initResult # RAGGER_SUCCESS THEN <<>>
          ELSE (IF ExportsRegisterEvents(path) THEN <<"plugin_register_events">> ELSE <<>>) \o
               (IF ExportsGetCapabilities(path) THEN <<"plugin_get_capabilities">> ELSE <<>>))

\* the entry point PluginManager::unloadPluginLibrary calls in the module
ShutdownCalls(path) == IF Modules(path).hasShutdown THEN <<"plugin_shutdown">> ELSE <<>>

\* PluginManager::loadPluginLibrary: the result, the loader's handles, and the
\* metadata read (NoAbi when the module was not asked)
loadPluginLibrary(path, handles) ==
    IF ~Modules(path).isLibrary
    THEN [ret |-> RAGGER_ERROR_PLUGIN_LOAD_FAILED, handles |-> handles,
          abiVersion |-> NoAbi, name |-> ""]
    ELSE IF ~Modules(path).hasMetadata
    THEN [ret |-> RAGGER_ERROR_PLUGIN_LOAD_FAILED,
          handles |-> dlclose(path, dlopen(path, handles)),
          abiVersion |-> NoAbi, name |-> ""]
    ELSE [ret |-> RAGGER_SUCCESS, handles |-> dlopen(path, handles),
          abiVersion |-> Modules(path).abiVersion, name |-> Modules(path).name]

\* PluginManager::checkPluginABI
checkPluginABI(abiVersion) ==
    IF abiVersion # RAGGER_PLUGIN_ABI_VERSION
    THEN RAGGER_ERROR_ABI_VERSION_MISMATCH
    ELSE RAGGER_SUCCESS

\* PluginManager::initializePlugin
initializePlugin(path) ==
    IF ~Modules(path).hasInitialize THEN RAGGER_ERROR_PLUGIN_LOAD_FAILED
    ELSE Modules(path).initResult

\* faulty variant: the library is left open
LeaveLibraryOpen(path, handles) == handles

\* PluginManager::unloadPluginLibrary, libraryHandle being set
unloadPluginLibrary(path, handles) == dlclose(path, handles)

\* PluginManager::loadPlugin: the result, the manager as the call leaves it, and
\* the entry points of the module called on the way
loadPlugin(path, loaded, handles, errors) ==
    LET pluginName == extractPluginNameFromPath(path)
        Done(ret, ld, hd, er, abi, calls) ==
            [ret |-> ret, loaded |-> ld, handles |-> hd, errors |-> er, abi |-> abi,
             calls |-> calls]
    IN
    IF ~Modules(path).exists
    THEN Done(RAGGER_ERROR_FILE_NOT_FOUND, loaded, handles,
              reportPluginError(errors, "", RAGGER_ERROR_FILE_NOT_FOUND), NoAbi, <<>>)
    ELSE IF pluginName \in DOMAIN loaded
    THEN Done(RAGGER_ERROR_INVALID_ARGUMENT, loaded, handles, errors, NoAbi, <<>>)
    ELSE LET lib == loadPluginLibrary(path, handles) IN
         IF lib.ret # RAGGER_SUCCESS
         THEN Done(lib.ret, loaded, lib.handles,
                   reportPluginError(errors, pluginName, lib.ret), lib.abiVersion,
                   MetadataCalls(path))
         ELSE LET abi == checkPluginABI(lib.abiVersion) IN
              IF abi # RAGGER_SUCCESS
              THEN Done(abi, loaded, unloadPluginLibrary(path, lib.handles),
                        reportPluginError(errors, pluginName, abi), lib.abiVersion,
                        MetadataCalls(path) \o ShutdownCalls(path))
              ELSE LET init == initializePlugin(path) IN
                   IF init # RAGGER_SUCCESS
                   THEN Done(init, loaded, unloadPluginLibrary(path, lib.handles),
                             reportPluginError(errors, pluginName, init), lib.abiVersion,
                             MetadataCalls(path) \o InitializeCalls(path) \o
                             ShutdownCalls(path))
                   ELSE Done(RAGGER_SUCCESS,
                             [k \in DOMAIN loaded \cup {pluginName} |->
                                 IF k = pluginName
                                 THEN [name |-> pluginName,
                                       info |-> [name |-> lib.name, path |-> path,
                                                 loaded |-> TRUE,
                                                 abiVersion |-> lib.abiVersion]]
                                 ELSE loaded[k]],
                             lib.handles, errors, lib.abiVersion,
                             MetadataCalls(path) \o InitializeCalls(path))

\* PluginManager::unloadPlugin: the result, the manager as the call leaves it, and
\* the entry points of the module called on the way
\* (faulty variant: the descriptor stays in the registry)
KeepDescriptor(pluginName, loaded, handles) ==
    IF pluginName \notin DOMAIN loaded
    THEN [ret |-> RAGGER_ERROR_INVALID_ARGUMENT, loaded |-> loaded, handles |-> handles,
          calls |-> <<>>]
    ELSE [ret |-> RAGGER_SUCCESS,
          loaded |-> loaded,
          handles |-> unloadPluginLibrary(loaded[pluginName].info.path, handles),
          calls |-> ShutdownCalls(loaded[pluginName].info.path)]
unloadPlugin(pluginName, loaded, handles) ==
    IF pluginName \notin DOMAIN loaded
    THEN [ret |-> RAGGER_ERROR_INVALID_ARGUMENT, loaded |-> loaded, handles |-> handles,
          calls |-> <<>>]
    ELSE [ret |-> RAGGER_SUCCESS,
          loaded |-> [k \in DOMAIN loaded \ {pluginName} |-> loaded[k]],
          handles |-> unloadPluginLibrary(loaded[pluginName].info.path, handles),
          calls |-> ShutdownCalls(loaded[pluginName].info.path)]

PlgOp(name, path, ret, abi) ==
    [op |-> name, path |-> path, ret |-> ret, abi |-> abi, calls |-> <<>>]

LoadPlugin(path) ==
    LET r == loadPlugin(path, loadedPlugins, openHandles, pluginErrors) IN
    /\ loadedPlugins' = r.loaded
    /\ openHandles' = r.handles
    /\ pluginErrors' = r.errors
    /\ lastPlg' = [PlgOp("loadPlugin", path, r.ret, r.abi) EXCEPT !.calls = r.calls]

UnloadPlugin(pluginName) ==
    LET r == unloadPlugin(pluginName, loadedPlugins, openHandles) IN
    /\ loadedPlugins' = r.loaded
    /\ openHandles' = r.handles
    /\ lastPlg' = [PlgOp("unloadPlugin", pluginName, r.ret, NoAbi) EXCEPT !.calls = r.calls]
    /\ UNCHANGED pluginErrors

\* PluginManager::reloadPlugin
\* (faulty variant: the plugin is loaded again without being unloaded first)
ReloadWithoutUnload(pluginName) ==
    IF pluginName \notin DOMAIN loadedPlugins
    THEN /\ lastPlg' = PlgOp("reloadPlugin", pluginName, RAGGER_ERROR_INVALID_ARGUMENT, NoAbi)
         /\ UNCHANGED <<loadedPlugins, openHandles, pluginErrors>>
    ELSE LET pluginPath == loadedPlugins[pluginName].info.path
             r == loadPlugin(pluginPath, loadedPlugins, openHandles, pluginErrors)
         IN /\ loadedPlugins' = r.loaded
            /\ openHandles' = r.handles
            /\ pluginErrors' = r.errors
            /\ lastPlg' = [PlgOp("reloadPlugin", pluginName, r.ret, r.abi) EXCEPT
                              !.calls = r.calls]
ReloadPlugin(pluginName) ==
    IF pluginName \notin DOMAIN loadedPlugins
    THEN /\ lastPlg' = PlgOp("reloadPlugin", pluginName, RAGGER_ERROR_INVALID_ARGUMENT, NoAbi)
         /\ UNCHANGED <<loadedPlugins, openHandles, pluginErrors>>
    ELSE LET pluginPath == loadedPlugins[pluginName].info.path
             u == unloadPlugin(pluginName, loadedPlugins, openHandles)
             r == loadPlugin(pluginPath, u.loaded, u.handles, pluginErrors)
         IN /\ loadedPlugins' = r.loaded
            /\ openHandles' = r.handles
            /\ pluginErrors' = r.errors
            /\ lastPlg' = [PlgOp("reloadPlugin", pluginName, r.ret, r.abi) EXCEPT
                              !.calls = u.calls \o r.calls]

\* PluginManager::unloadAllPlugins: every registered plugin is unloaded in turn
RECURSIVE UnloadEach(_, _, _)
UnloadEach(names, loaded, handles) ==
    IF names = {} THEN [loaded |-> loaded, handles |-> handles, count |-> 0, calls |-> <<>>]
    ELSE LET name == CHOOSE n \in names : TRUE
             u == unloadPlugin(name, loaded, handles)
             rest == UnloadEach(names \ {name}, u.loaded, u.handles)
         IN [rest EXCEPT !.count = @ + (IF u.ret = RAGGER_SUCCESS THEN 1 ELSE 0),
                         !.calls = u.calls \o @]

UnloadAllPlugins ==
    LET r == UnloadEach(DOMAIN loadedPlugins, loadedPlugins, openHandles) IN
    /\ loadedPlugins' = r.loaded
    /\ openHandles' = r.handles
    /\ lastPlg' = [PlgOp("unloadAllPlugins", "", r.count, NoAbi) EXCEPT !.calls = r.calls]
    /\ UNCHANGED pluginErrors

\* PluginManager::isPluginLoaded
isPluginLoaded(pluginName) == pluginName \in DOMAIN loadedPlugins

\* PluginManager::clearPluginErrors
ClearPluginErrors ==
    /\ pluginErrors' = <<>>
    /\ lastPlg' = PlgOp("clearPluginErrors", "", RAGGER_SUCCESS, NoAbi)
    /\ UNCHANGED <<loadedPlugins, openHandles>>

\* PluginManager::PluginManager
(***************************************************************************)
(* The plugin search path                                                  *)
(***************************************************************************)
MaxAdds == 2      \* addPluginDirectory calls made after construction

\* the addPluginDirectory calls the constructor makes at most
ConstructorAdds == 3

\* the current directory and the values of HOME (NoHome: HOME is not set)
CurrentPath == "/cwd"
NoHome == ""
Homes == {NoHome, "/home/u", CurrentPath}

\* fs::path(base) / ".ragger" / "plugins"
DotRaggerPlugins(base) == IF base = CurrentPath THEN "/cwd/.ragger/plugins"
                          ELSE "/home/u/.ragger/plugins"

DefaultPluginDirectory == "/cwd/lib/ragger/plugins"

Dirs == {DefaultPluginDirectory, "/home/u/.ragger/plugins", "/cwd/.ragger/plugins"}

\* PluginManager::addPluginDirectory
addPluginDirectory(directories, directory, disk) ==
    IF directory \in disk THEN Append(directories, directory) ELSE directories

\* PluginManager::removePluginDirectory: std::remove_if and erase
removePluginDirectory(directories, directory) ==
    SelectSeq(directories, LAMBDA d : d # directory)

\* the directories the constructor tries to add, in its order
ConstructorDirectories(home) ==
    <<DefaultPluginDirectory>>
    \o (IF home # NoHome THEN <<DotRaggerPlugins(home)>> ELSE <<>>)
    \o <<DotRaggerPlugins(CurrentPath)>>

RECURSIVE AddEach(_, _, _)
AddEach(directories, toAdd, disk) ==
    IF toAdd = <<>> THEN directories
    ELSE AddEach(addPluginDirectory(directories, Head(toAdd), disk), Tail(toAdd), disk)

\* the number of the last constructor call that added the directory d
LastAddOf(d, toAdd, disk) ==
    LET calls == {i \in 1..Len(toAdd) : toAdd[i] = d /\ d \in disk} IN
    IF calls = {} THEN 0 ELSE CHOOSE i \in calls : \A j \in calls : j <= i

\* PluginManager::PluginManager, with HOME = home over the directories of disk
ConstructedOver(home, disk) ==
    /\ dirsOnDisk = disk
    /\ pluginDirectories = AddEach(<<>>, ConstructorDirectories(home), disk)
    /\ userPluginDirectory = (IF home # NoHome THEN DotRaggerPlugins(home) ELSE NoHome)
    /\ projectPluginDirectory = DotRaggerPlugins(CurrentPath)
    /\ addedAt = [d \in Dirs |-> LastAddOf(d, ConstructorDirectories(home), disk)]
    /\ addCount = Len(ConstructorDirectories(home))

AddPluginDirectory(directory) ==
    /\ pluginDirectories' = addPluginDirectory(pluginDirectories, directory, dirsOnDisk)
    /\ addCount' = addCount + 1
    /\ addedAt' = IF directory \in dirsOnDisk
                  THEN [addedAt EXCEPT ![directory] = addCount + 1] ELSE addedAt
    /\ UNCHANGED <<userPluginDirectory, projectPluginDirectory, dirsOnDisk>>

RemovePluginDirectory(directory) ==
    /\ pluginDirectories' = removePluginDirectory(pluginDirectories, directory)
    /\ UNCHANGED <<userPluginDirectory, projectPluginDirectory, dirsOnDisk, addedAt,
                   addCount>>

\* PluginManager::setUserPluginDirectory
SetUserPluginDirectory(directory) ==
    /\ userPluginDirectory' = directory
    /\ pluginDirectories' = IF directory \in dirsOnDisk
                            THEN addPluginDirectory(pluginDirectories, directory, dirsOnDisk)
                            ELSE pluginDirectories
    /\ addCount' = addCount + 1
    /\ addedAt' = IF directory \in dirsOnDisk
                  THEN [addedAt EXCEPT ![directory] = addCount + 1] ELSE addedAt
    /\ UNCHANGED <<projectPluginDirectory, dirsOnDisk>>

\* PluginManager::setProjectPluginDirectory
SetProjectPluginDirectory(directory) ==
    /\ projectPluginDirectory' = directory
    /\ pluginDirectories' = IF directory \in dirsOnDisk
                            THEN addPluginDirectory(pluginDirectories, directory, dirsOnDisk)
                            ELSE pluginDirectories
    /\ addCount' = addCount + 1
    /\ addedAt' = IF directory \in dirsOnDisk
                  THEN [addedAt EXCEPT ![directory] = addCount + 1] ELSE addedAt
    /\ UNCHANGED <<userPluginDirectory, dirsOnDisk>>

\* the environment: a directory is created or deleted
MakeDirectory(directory) ==
    /\ directory \notin dirsOnDisk
    /\ dirsOnDisk' = dirsOnDisk \cup {directory}
    /\ UNCHANGED <<pluginDirectories, userPluginDirectory, projectPluginDirectory,
                   addedAt, addCount>>

DeleteDirectory(directory) ==
    /\ directory \in dirsOnDisk
    /\ dirsOnDisk' = dirsOnDisk \ {directory}
    /\ UNCHANGED <<pluginDirectories, userPluginDirectory, projectPluginDirectory,
                   addedAt, addCount>>

\* PluginManager::PluginManager: nothing is loaded
InitManager ==
    /\ loadedPlugins = <<>>
    /\ openHandles = [path \in PluginPaths |-> 0]
    /\ pluginErrors = <<>>
    /\ lastPlg = PlgOp("none", "", RAGGER_SUCCESS, NoAbi)
    /\ removedFiles = {}

InitPlugin ==
    /\ InitManager
    /\ ConstructedOver("/home/u", {})

NextPluginDirs ==
    /\ \/ \E directory \in Dirs :
             addCount < ConstructorAdds + MaxAdds /\ AddPluginDirectory(directory)
       \/ \E directory \in Dirs : RemovePluginDirectory(directory)
       \/ \E directory \in Dirs :
             addCount < ConstructorAdds + MaxAdds /\ SetUserPluginDirectory(directory)
       \/ \E directory \in Dirs :
             addCount < ConstructorAdds + MaxAdds /\ SetProjectPluginDirectory(directory)
       \/ \E directory \in Dirs : MakeDirectory(directory)
       \/ \E directory \in Dirs : DeleteDirectory(directory)
    /\ UNCHANGED <<busVars, lifeVars, memVars, idxVars, loadedPlugins, openHandles,
                   pluginErrors, lastPlg, removedFiles>>

\* the environment: a module file is deleted from the disk
RemovablePaths == {"lib/alpha.so", "lib/beta.so"}

RemoveModuleFile(path) ==
    /\ path \notin removedFiles
    /\ removedFiles' = removedFiles \cup {path}
    /\ UNCHANGED <<loadedPlugins, openHandles, pluginErrors, lastPlg>>

NextPlugin ==
    /\ \/ \E path \in PluginPaths : Len(pluginErrors) < MaxErrors /\ LoadPlugin(path)
       \/ \E pluginName \in PluginKeys : UnloadPlugin(pluginName)
       \/ \E pluginName \in PluginKeys :
             Len(pluginErrors) < MaxErrors /\ ReloadPlugin(pluginName)
       \/ UnloadAllPlugins
       \/ ClearPluginErrors
    /\ UNCHANGED <<busVars, lifeVars, memVars, idxVars, removedFiles, dirVars>>

(***************************************************************************)
(*                           SPECIFICATIONS                                *)
(***************************************************************************)
\* a component is examined over the initial states of the others held fixed
FixedIndex ==
    /\ InitIndex
    /\ files = [p \in IndexPaths |-> NoFile]

\* the three components as constructed, over an empty directory
Init == InitBus /\ FixedIndex /\ InitPlugin

\* the three components as constructed, over a directory holding any of the files
InitOverFiles == InitBus /\ InitIndex /\ InitPlugin

SpecBus == Init /\ [][NextBus]_vars
SpecBusKeys == Init /\ [][NextBusKeys]_vars
SpecBusAsync == Init /\ [][NextBusAsync]_vars
SpecBusStats == Init /\ [][NextBusStats]_vars
SpecBusDestroy == Init /\ [][NextBusDestroy]_vars
SpecBusErrors == Init /\ [][NextBusErrors]_vars
SpecBusFilters == Init /\ [][NextBusFilters]_vars
SpecBusMany == Init /\ [][NextBusMany]_vars
SpecBusFaults == Init /\ [][NextBusFaults]_vars
SpecBusPayload == Init /\ [][NextBusPayload]_vars
SpecBusLate == Init /\ [][NextBusLate]_vars

\* the worker thread is scheduled fairly: a step of processingLoop that stays
\* possible is eventually taken
WorkerFairness ==
    /\ WF_vars(WorkerTake /\ UNCHANGED <<subscribedKeys, lifeVars, memVars, idxVars, plgVars>>)
    /\ WF_vars(WorkerDispatch /\ UNCHANGED <<subscribedKeys, lifeVars, memVars, idxVars, plgVars>>)
    /\ WF_vars(WorkerRecord /\ UNCHANGED <<subscribedKeys, lifeVars, memVars, idxVars, plgVars>>)

SpecBusAsyncFair == Init /\ [][NextBusAsync]_vars /\ WorkerFairness
SpecIndex == InitOverFiles /\ [][NextIndex]_vars
SpecIndexDirectory == InitOverFiles /\ [][NextIndexDirectory]_vars
SpecIndexPool == InitOverFiles /\ [][NextIndexPool]_vars
SpecPlugin == Init /\ [][NextPlugin]_vars

\* the plugin manager while module files disappear from the disk
NextPluginReload ==
    /\ \/ \E path \in PluginPaths :
             /\ Len(pluginErrors) < MaxErrors
             /\ LoadPlugin(path)
             /\ UNCHANGED removedFiles
       \/ \E pluginName \in PluginKeys :
             UnloadPlugin(pluginName) /\ UNCHANGED removedFiles
       \/ \E pluginName \in PluginKeys :
             /\ Len(pluginErrors) < MaxErrors
             /\ ReloadPlugin(pluginName)
             /\ UNCHANGED removedFiles
       \/ \E path \in RemovablePaths : RemoveModuleFile(path)
    /\ UNCHANGED <<busVars, lifeVars, memVars, idxVars, dirVars>>

SpecPluginReload == Init /\ [][NextPluginReload]_vars

\* the plugin manager constructed under any HOME over any directories
InitOverDirs ==
    /\ InitBus
    /\ FixedIndex
    /\ InitManager
    /\ \E home \in Homes, disk \in SUBSET Dirs : ConstructedOver(home, disk)

SpecPluginDirs == InitOverDirs /\ [][NextPluginDirs]_vars

(***************************************************************************)
(*                        PROPERTIES: EVENT BUS                            *)
(***************************************************************************)

\* a synchronous emitEvent returned after dispatching its event
EmitReturned ==
    /\ lastOp.op = "emitEvent"
    /\ lastOp.ret = RAGGER_SUCCESS
    /\ lastOp.event # NullEvent
    /\ ~lastOp.dropped

\* how many of the callbacks the last emission ran belong to the key k
CallsOfKey(k) == Cardinality({j \in 1..Len(lastOp.calls) : Key(lastOp.calls[j]) = k})

\* C1: a key registered by a successful subscribe(type, callback, context) and
\* still held is invoked exactly once by every synchronous emission of its type
\* that the bus dispatches.
C1_SubscribedInvokedOncePerEmit ==
    EmitReturned =>
        \A k \in subscribedKeys : k[1] = lastOp.event.type => CallsOfKey(k) = 1

\* C21: (type, callback, context) is a unique key of the subscription set: no
\* two subscriptions the bus holds have the same key.
C21_KeysUnique ==
    \A i, j \in 1..Len(subscriptions) :
        Key(subscriptions[i]) = Key(subscriptions[j]) => i = j

\* positions in the call log of the last emission at which sub was invoked
CallPositions(sub) == {j \in 1..Len(lastOp.calls) : lastOp.calls[j] = sub}

\* the subscriptions held that match the event of the last emission
MatchingHeld ==
    {subscriptions[i] : i \in {n \in 1..Len(subscriptions) :
        /\ subscriptions[n].type = lastOp.event.type
        /\ Matches(subscriptions[n], lastOp.event)}}

\* C4: when an emission is dispatched to two matching subscriptions with
\* priorities p1 > p2, both callbacks run and the p1 callback runs first,
\* whatever the order of subscription.
C4_HigherPriorityFirst ==
    EmitReturned =>
        \A s1 \in MatchingHeld, s2 \in MatchingHeld :
            s1.priority > s2.priority =>
                /\ CallPositions(s1) # {}
                /\ CallPositions(s2) # {}
                /\ \A a \in CallPositions(s1), b \in CallPositions(s2) : a < b

C4_Witness ==
    /\ EmitReturned
    /\ Len(subscriptions) = 2
    /\ subscriptions[1].priority < subscriptions[2].priority
    /\ lastOp.calls = <<subscriptions[2], subscriptions[1]>>

\* C6: a callback that calls back into the bus gets its nested call completed:
\* no thread is ever stuck in, or thrown out of, a nested bus call.
C6_NestedCallCompletes ==
    /\ clientPc # "deadlocked"
    /\ ~lastOp.nestedFailed
    /\ workerPc # "blocked"

\* C9: unsubscribe(type, callback) removes the registrations of that pair and
\* keeps every other registration, in order ...
C9_UnsubscribeStep ==
    \A type \in EventTypes, callback \in SyncCallbacks :
        (Unsubscribe(type, callback) /\ lastOp'.ret = RAGGER_SUCCESS) =>
            /\ \A i \in 1..Len(subscriptions') :
                   ~(subscriptions'[i].type = type /\ subscriptions'[i].callback = callback)
            /\ subscriptions' =
                 SelectSeq(subscriptions,
                           LAMBDA sub : sub.type # type \/ sub.callback # callback)

\* ... and a later emission runs exactly the registrations still held that
\* match it, each once per registration, and no callback that is not held.
C9_EmitRunsHeld ==
    EmitReturned =>
        /\ \A j \in 1..Len(lastOp.calls) : lastOp.calls[j] \in MatchingHeld
        /\ \A sub \in MatchingHeld :
              Cardinality(CallPositions(sub)) =
              Cardinality({i \in 1..Len(subscriptions) : subscriptions[i] = sub})

C9_UnsubscribeExact == [][C9_UnsubscribeStep]_vars /\ []C9_EmitRunsHeld

\* an unsubscribe has removed one of two registrations and kept the other
C9_Witness ==
    /\ lastOp.op = "unsubscribe"
    /\ lastOp.ret = RAGGER_SUCCESS
    /\ Len(subscriptions) = 1
    /\ subscriptions[1].callback = "cbB"

\* C10: from fresh statistics, after N synchronous emissions of one kind, each
\* dispatched to exactly one subscriber, eventsByType[kind] = N and
\* totalEventsProcessed = N.
C10_StatsCountEmissions ==
    \A kind \in EventTypes :
        (scenario.pure /\ \A other \in EventTypes \ {kind} : scenario.syncEmits[other] = 0)
        => /\ stats.eventsByType[kind] = scenario.syncEmits[kind]
           /\ stats.totalEventsProcessed = scenario.syncEmits[kind]

C10_Witness ==
    /\ scenario.pure
    /\ scenario.syncEmits[EVENT_CODEBLOCK_INDEXED] = MaxEmit
    /\ scenario.syncEmits[EVENT_FILE_PARSED] = 0
    /\ stats.eventsByType[EVENT_CODEBLOCK_INDEXED] = MaxEmit

\* C11: one emission is counted at most once. A filtered-out emission returns
\* success, adds one to eventsDropped and nothing to totalEventsProcessed, runs
\* no callback and queues nothing; an accepted synchronous emission that
\* returns adds one to totalEventsProcessed and nothing to eventsDropped; an
\* accepted asynchronous emission adds to neither when it is queued, and the
\* worker adds exactly one to totalEventsProcessed, and nothing to
\* eventsDropped, when it has dispatched the item.
C11_CountStep ==
    /\ \A event \in StatsEvents :
          /\ ((EmitEvent(event) \/ EmitEventAsync(event)) /\ ~shouldProcessEvent(event))
             => /\ lastOp'.ret = RAGGER_SUCCESS
                /\ stats'.eventsDropped = stats.eventsDropped + 1
                /\ stats'.totalEventsProcessed = stats.totalEventsProcessed
                /\ stats'.eventsByType = stats.eventsByType
                /\ lastOp'.calls = <<>>
                /\ eventQueue' = eventQueue
          /\ (EmitEvent(event) /\ shouldProcessEvent(event) /\ clientPc' = "idle")
             => /\ stats'.totalEventsProcessed = stats.totalEventsProcessed + 1
                /\ stats'.eventsDropped = stats.eventsDropped
          /\ (EmitEventAsync(event) /\ shouldProcessEvent(event))
             => /\ stats'.totalEventsProcessed = stats.totalEventsProcessed
                /\ stats'.eventsDropped = stats.eventsDropped
                /\ Len(eventQueue') = Len(eventQueue) + 1
    /\ WorkerTake
          => stats' = stats
    /\ WorkerRecord
          => /\ stats'.totalEventsProcessed = stats.totalEventsProcessed + 1
             /\ stats'.eventsDropped = stats.eventsDropped

C11_CountedAtMostOnce == [][C11_CountStep]_vars

\* one emission was filtered out, one was queued and has been dispatched and
\* counted by the worker
C11_Witness ==
    /\ stats.eventsDropped = 1
    /\ stats.totalEventsEmitted = 1
    /\ stats.totalEventsProcessed = 1
    /\ workerPc = "wait"
    /\ eventQueue = <<>>

\* the call left the subscription set, the queue and the statistics alone
BusUntouched ==
    /\ subscriptions' = subscriptions
    /\ eventQueue' = eventQueue
    /\ stats' = stats

\* C22: subscribe with a null callback or with a (type, callback, context) that
\* is already registered, and emitEvent / emitEventAsync with a null event,
\* return RAGGER_ERROR_INVALID_ARGUMENT and leave the subscription set, the
\* queue and the statistics as they were.
C22_RejectStep ==
    /\ \A type \in EventTypes, callback \in {"cbA", NullCallback}, userData \in UserDatas :
          (/\ Subscribe(type, callback, userData, DefaultPriority, NullStr)
           /\ \/ callback = NullCallback
              \/ \E i \in 1..Len(subscriptions) :
                    Key(subscriptions[i]) = <<type, callback, userData>>)
          => (lastOp'.ret = RAGGER_ERROR_INVALID_ARGUMENT /\ BusUntouched)
    /\ (EmitEvent(NullEvent) \/ EmitEventAsync(NullEvent))
          => (lastOp'.ret = RAGGER_ERROR_INVALID_ARGUMENT /\ BusUntouched)

C22_RejectedCallsChangeNothing == [][C22_RejectStep]_vars

\* a subscribe was rejected while the bus held a subscription, a queued event
\* and counted emissions
C22_Witness ==
    /\ lastOp.op = "subscribe"
    /\ lastOp.ret = RAGGER_ERROR_INVALID_ARGUMENT
    /\ Len(subscriptions) = 1
    /\ eventQueue # <<>>
    /\ stats.totalEventsEmitted > 0

\* the events the worker has yet to hand to the subscribers
PendingEvents ==
    {eventQueue[i].event : i \in 1..Len(eventQueue)}
        \cup (IF workerPc = "dispatch" THEN {workerItem.event} ELSE {})

\* C23: emitEventAsync copies the payload: the bytes a queued event points to,
\* which the subscribers read when the worker dispatches it, are the bytes the
\* caller's buffer held at the call, whatever the caller does to its buffer
\* afterwards.
C23_PayloadAsEmitted ==
    \A event \in PendingEvents :
        event.data # NullPtr => memory[event.data] = payloadAtEmit[event.data]

\* the worker is dispatching an event with a payload to a subscriber after the
\* caller freed the buffer it emitted from
C23_Witness ==
    /\ workerPc = "dispatch"
    /\ workerItem.event.data # NullPtr
    /\ findMatchingSubscriptions(subscriptions, workerItem.event) # <<>>
    /\ memory[CallerBuf] = Freed

\* C24: a fault of a subscriber's callback is caught by the bus: an emission
\* that passes the filters invokes every matching subscription, in descending
\* priority, is counted as processed and returns RAGGER_SUCCESS, whichever of
\* the callbacks throw.
C24_FaultStep ==
    \A event \in AsyncEvents :
        (EmitEvent(event) /\ shouldProcessEvent(event))
        => /\ lastOp'.ret = RAGGER_SUCCESS
           /\ Len(lastOp'.calls) = Len(findMatchingSubscriptions(subscriptions, event))
           /\ \A i \in 1..Len(subscriptions) :
                 (subscriptions[i].type = event.type /\ Matches(subscriptions[i], event))
                 => \E j \in 1..Len(lastOp'.calls) : lastOp'.calls[j] = subscriptions[i]
           /\ \A i, j \in 1..Len(lastOp'.calls) :
                 i < j => lastOp'.calls[i].priority >= lastOp'.calls[j].priority
           /\ stats'.totalEventsProcessed = stats.totalEventsProcessed + 1

C24_FaultsAreIsolated == [][C24_FaultStep]_vars

\* the position at which a subscription was registered
RegistrationIndex(sub) == CHOOSE n \in 1..Len(subscriptions) : subscriptions[n] = sub

\* C25: among the matching subscriptions of equal priority, an emission invokes
\* the callbacks in the order in which the subscriptions were registered.
C25_TiesInRegistrationOrder ==
    EmitReturned =>
        \A i, j \in 1..Len(lastOp.calls) :
            (i < j /\ lastOp.calls[i].priority = lastOp.calls[j].priority)
            => RegistrationIndex(lastOp.calls[i]) < RegistrationIndex(lastOp.calls[j])

\* the global switch of the event's source plugin is not disabled
GloballyEnabled(event) ==
    event.sourcePlugin = NullStr \/ globalFilters[event.sourcePlugin]

\* the source filter of the event's type, if set, equals the event's source
TypeFilterPasses(event) ==
    eventFilters[event.type] = "" \/ eventFilters[event.type] = event.sourcePlugin

\* C26: filtering is conjunctive: an emission invokes a subscription only if
\* the global switch of the event's source is not disabled, the source filter
\* of its type (if set) equals its source, and the subscription's source filter
\* (if set) equals its source; an event that fails one of the first two is
\* dropped and invokes nothing.
C26_FilterStep ==
    \A event \in FilterEvents :
        EmitEvent(event)
        => /\ \A j \in 1..Len(lastOp'.calls) :
                 /\ GloballyEnabled(event)
                 /\ TypeFilterPasses(event)
                 /\ \/ lastOp'.calls[j].filter = ""
                    \/ lastOp'.calls[j].filter = event.sourcePlugin
           /\ ~(GloballyEnabled(event) /\ TypeFilterPasses(event))
                 => (lastOp'.dropped /\ lastOp'.calls = <<>>)

C26_FilteringIsConjunctive == [][C26_FilterStep]_vars

\* C14: every event emitEventAsync accepted is eventually dispatched by the
\* worker: while the queue holds an event the waiting worker eventually takes
\* one, an item it took is eventually dispatched to the callbacks, and the
\* dispatch is eventually counted, after which the worker takes the next.
C14_AcceptedEventuallyDispatched ==
    /\ (eventQueue # <<>> /\ workerPc = "wait") ~> (workerPc = "dispatch")
    /\ (workerPc = "dispatch") ~> (workerPc = "record")
    /\ (workerPc = "record") ~> (workerPc \in {"wait", "dispatch"})

\* the worker is inside processEvent: it released mutex_ and is matching the
\* popped event against subscriptions_ and invoking through pointers into it
WorkerReadsSubscriptions == workerPc = "dispatch"

\* C16: the subscription list is read and written only under mutex_: no step
\* changes the list while the worker is reading it.
C16_NoWriteWhileWorkerReads ==
    [][WorkerReadsSubscriptions => subscriptions' = subscriptions]_vars

\* C17: destroying the bus terminates: the worker always observes the shutdown,
\* so the destructor is never left in join() while the worker is blocked in
\* its wait with no notification to come.
C17_WorkerObservesShutdown ==
    ~(dtorPc = "join" /\ workerPc = "sleeping" /\ ~notified)

(***************************************************************************)
(*                      PROPERTIES: INDEX MANAGER                          *)
(***************************************************************************)

\* the last call was needsReindexing and lastIdx.answer is what it returned
NeedsReindexingReturned == lastIdx.op = "needsReindexing"

\* hashing the file fails: it is gone or cannot be opened
HashingFails(path) == ~files[path].exists \/ ~files[path].readable

\* C2: round trip. On a file that indexFile has indexed and that can be read,
\* needsReindexing returns false while the file still holds the bytes it held
\* at the last successful indexFile, and true once its bytes differ from them
\* (so false after indexing, true after a change, false after indexing again).
C2_RoundTrip ==
    \A path \in IndexPaths :
        (/\ NeedsReindexingReturned
         /\ lastIdx.path = path
         /\ indexedContent[path] # NoEntry
         /\ ~HashingFails(path))
        => (lastIdx.answer <=> files[path].content # indexedContent[path])

\* C7: needsReindexing returns true exactly when hashing the file fails, or the
\* path has no catalog entry (never indexed, or removed from the index), or the
\* fresh hash of the file differs from the hash of the indexed content.
C7_NeedsReindexingIff ==
    \A path \in IndexPaths :
        (NeedsReindexingReturned /\ lastIdx.path = path)
        => (lastIdx.answer <=>
               \/ HashingFails(path)
               \/ indexedContent[path] = NoEntry
               \/ Sha256Hex(files[path].content) # Sha256Hex(indexedContent[path]))

\* C8: a successful indexFile on an eligible file that is new, or whose bytes
\* differ from those last indexed, leaves a row of table files for the path
\* whose hash is the digest of the file's content (so a second indexing after
\* an overwrite leaves a digest different from the first).
C8_IndexFileStep ==
    \A path \in IndexPaths :
        (/\ IndexFileCall(path)
         /\ lastIdx'.ret = RAGGER_SUCCESS
         /\ files[path].exists
         /\ shouldIndexFile(path)
         /\ \/ indexedContent[path] = NoEntry
            \/ indexedContent[path] # files[path].content)
        => (/\ filesTable'[path] # NoRow
            /\ filesTable'[path].hash = Sha256Hex(files[path].content))

C8_RowHoldsDigest == [][C8_IndexFileStep]_vars

\* hashCache_ with no entry: calculateFileHash then always reads the file
ColdCache == [p \in IndexPaths |-> NoTime]

\* C18: the hash cache never changes an answer: needsReindexing answers, and
\* indexFile on an eligible file decides "up to date" or not, exactly as with
\* the hash computed fresh from the file's bytes.
C18_AnswerStep ==
    \A path \in IndexPaths :
        /\ NeedsReindexingCall(path)
           => lastIdx'.answer = needsReindexing(path, fileHashes, ColdCache).answer
        /\ (IndexFileCall(path) /\ files[path].exists /\ shouldIndexFile(path))
           => ((lastIdx'.ret = RAGGER_SUCCESS /\ filesTable' = filesTable)
               <=> ~needsReindexing(path, fileHashes, ColdCache).answer)

C18_CacheIsTransparent == [][C18_AnswerStep]_vars

\* C19: indexFile on an eligible, readable file whose content hash equals the
\* hash recorded for the path (the fileHashes_ entry indexFile compares with)
\* returns success and writes nothing to storage: table files, and with it the
\* row's last_indexed, is as before.
C19_UnchangedStep ==
    \A path \in IndexPaths :
        (/\ IndexFileCall(path)
         /\ files[path].exists
         /\ files[path].readable
         /\ shouldIndexFile(path)
         /\ fileHashes[path] = Sha256Hex(files[path].content))
        => (/\ lastIdx'.ret = RAGGER_SUCCESS
            /\ filesTable' = filesTable)

C19_UnchangedTouchesNoStorage == [][C19_UnchangedStep]_vars

C19_Witness ==
    /\ lastIdx.op = "indexFile"
    /\ lastIdx.ret = RAGGER_SUCCESS
    /\ db
    /\ files[lastIdx.path].exists
    /\ files[lastIdx.path].readable
    /\ shouldIndexFile(lastIdx.path)
    /\ lastIdx.recorded = Sha256Hex(files[lastIdx.path].content)

\* C20: indexFile on an eligible file that is new, or whose bytes differ from
\* those last indexed, replaces the path's rows as one step: either it succeeds
\* and table files holds the fresh record for the path, every other row as
\* before, or it returns an error and table files is as before the call.
C20_ReindexStep ==
    \A path \in IndexPaths :
        (/\ IndexFileCall(path)
         /\ files[path].exists
         /\ shouldIndexFile(path)
         /\ \/ indexedContent[path] = NoEntry
            \/ indexedContent[path] # files[path].content)
        => \/ /\ lastIdx'.ret = RAGGER_SUCCESS
              /\ filesTable' =
                    [filesTable EXCEPT ![path] =
                        [hash |-> Sha256Hex(files[path].content),
                         last_indexed |-> clock,
                         file_size |-> FileSize(files[path].content)]]
           \/ /\ lastIdx'.ret # RAGGER_SUCCESS
              /\ filesTable' = filesTable

C20_ReindexAllOrNothing == [][C20_ReindexStep]_vars

(***************************************************************************)
(*                      PROPERTIES: PLUGIN MANAGER                         *)
(***************************************************************************)

\* C3: no two registered descriptors report the same name; a loadPlugin of a
\* module that reports the name of an already registered plugin is refused, so
\* one descriptor with that name remains.
C3_NoSharedName ==
    \A k1, k2 \in DOMAIN loadedPlugins :
        k1 # k2 => loadedPlugins[k1].info.name # loadedPlugins[k2].info.name

\* C5: a loadPlugin in which the module reported an ABI version other than
\* RAGGER_PLUGIN_ABI_VERSION returns RAGGER_ERROR_ABI_VERSION_MISMATCH, leaves
\* the plugin out of loadedPlugins_, and leaves no handle open on the module,
\* however many times it is repeated.
C5_AbiMismatchRejected ==
    (/\ lastPlg.op = "loadPlugin"
     /\ lastPlg.abi # NoAbi
     /\ lastPlg.abi # RAGGER_PLUGIN_ABI_VERSION)
    => (/\ lastPlg.ret = RAGGER_ERROR_ABI_VERSION_MISMATCH
        /\ extractPluginNameFromPath(lastPlg.path) \notin DOMAIN loadedPlugins
        /\ openHandles[lastPlg.path] = 0)

\* a second failed load of the same module with the wrong ABI version
C5_Witness ==
    /\ lastPlg.op = "loadPlugin"
    /\ lastPlg.abi = OldAbiVersion
    /\ lastPlg.ret = RAGGER_ERROR_ABI_VERSION_MISMATCH
    /\ Len(pluginErrors) = 2
    /\ \A i \in 1..2 :
          /\ pluginErrors[i].pluginName = extractPluginNameFromPath(lastPlg.path)
          /\ pluginErrors[i].errorCode = RAGGER_ERROR_ABI_VERSION_MISMATCH

\* the last loadPlugin got as far as initializePlugin and that failed
InitializationFailed ==
    /\ lastPlg.op = "loadPlugin"
    /\ lastPlg.abi = RAGGER_PLUGIN_ABI_VERSION
    /\ lastPlg.ret # RAGGER_SUCCESS

\* C12: when loadPlugin fails in initializePlugin (plugin_initialize missing or
\* returning non-zero), the runtime calls none of plugin_shutdown,
\* plugin_register_events and plugin_get_capabilities in that module.
C12_NoCallsAfterFailedInit ==
    InitializationFailed =>
        \A i \in 1..Len(lastPlg.calls) :
            lastPlg.calls[i] \notin {"plugin_shutdown", "plugin_register_events",
                                     "plugin_get_capabilities"}

\* handles the loader holds open, over a set of paths
RECURSIVE OpenHandleCount(_)
OpenHandleCount(paths) ==
    IF paths = {} THEN 0
    ELSE LET path == CHOOSE p \in paths : TRUE
         IN openHandles[path] + OpenHandleCount(paths \ {path})

\* C13: after every load, unload and reload the open module handles are those
\* of the registered plugins, one each; a loadPlugin that fails, on whichever
\* path, leaves no handle of its own open.
C13_HandlesMatchRegistry ==
    /\ OpenHandleCount(PluginPaths) = Cardinality(DOMAIN loadedPlugins)
    /\ \A path \in PluginPaths :
          openHandles[path] =
             Cardinality({k \in DOMAIN loadedPlugins : loadedPlugins[k].info.path = path})
    /\ (lastPlg.op = "loadPlugin" /\ lastPlg.ret # RAGGER_SUCCESS)
          => \/ openHandles[lastPlg.path] = 0
             \/ /\ lastPlg.ret = RAGGER_ERROR_INVALID_ARGUMENT
                /\ openHandles[lastPlg.path] = 1

\* a module that lacks a mandatory symbol was opened and refused while another
\* plugin is registered
C13_Witness ==
    /\ lastPlg.op = "loadPlugin"
    /\ lastPlg.path = "lib/nosym.so"
    /\ lastPlg.ret = RAGGER_ERROR_PLUGIN_LOAD_FAILED
    /\ Cardinality(DOMAIN loadedPlugins) = 1
    /\ Len(pluginErrors) = 2

\* C27: after a successful loadPlugin the plugin is found under the name its
\* module reports through plugin_get_name: isPluginLoaded of that name is true
\* and the descriptor registered under it is the one of the loaded file.
C27_FoundByReportedName ==
    (lastPlg.op = "loadPlugin" /\ lastPlg.ret = RAGGER_SUCCESS)
    => /\ isPluginLoaded(Modules(lastPlg.path).name)
       /\ loadedPlugins[Modules(lastPlg.path).name].info.path = lastPlg.path

\* C28: every failing loadPlugin, unloadPlugin or reloadPlugin appends at least
\* one PluginError, and but for clearPluginErrors no call removes or rewrites
\* an entry of the log.
C28_LogStep ==
    /\ \A path \in PluginPaths :
          (LoadPlugin(path) /\ lastPlg'.ret # RAGGER_SUCCESS)
          => Len(pluginErrors') > Len(pluginErrors)
    /\ \A pluginName \in PluginKeys :
          ((UnloadPlugin(pluginName) \/ ReloadPlugin(pluginName))
             /\ lastPlg'.ret # RAGGER_SUCCESS)
          => Len(pluginErrors') > Len(pluginErrors)
    /\ ~ClearPluginErrors
          => /\ Len(pluginErrors') >= Len(pluginErrors)
             /\ SubSeq(pluginErrors', 1, Len(pluginErrors)) = pluginErrors

C28_EveryFailureLogged == [][C28_LogStep]_vars

\* C29: unloadPlugin of a registered plugin calls the module's plugin_shutdown,
\* closes its handle and removes its descriptor, so that isPluginLoaded is
\* false afterwards and every other descriptor and handle is as before;
\* unloadPlugin of an unknown name returns RAGGER_ERROR_INVALID_ARGUMENT and
\* changes neither the registry nor the handles.
C29_UnloadStep ==
    \A pluginName \in PluginKeys :
        UnloadPlugin(pluginName)
        => IF isPluginLoaded(pluginName)
           THEN LET path == loadedPlugins[pluginName].info.path IN
                /\ lastPlg'.ret = RAGGER_SUCCESS
                /\ Modules(path).hasShutdown => lastPlg'.calls = <<"plugin_shutdown">>
                /\ openHandles' = [openHandles EXCEPT ![path] = @ - 1]
                /\ DOMAIN loadedPlugins' = DOMAIN loadedPlugins \ {pluginName}
                /\ \A k \in DOMAIN loadedPlugins' : loadedPlugins'[k] = loadedPlugins[k]
           ELSE /\ lastPlg'.ret = RAGGER_ERROR_INVALID_ARGUMENT
                /\ loadedPlugins' = loadedPlugins
                /\ openHandles' = openHandles

C29_UnloadRemovesOnePlugin == [][C29_UnloadStep]_vars

\* a plugin with a shutdown hook was unloaded while another stays registered
C29_Witness ==
    /\ lastPlg.op = "unloadPlugin"
    /\ lastPlg.ret = RAGGER_SUCCESS
    /\ lastPlg.calls = <<"plugin_shutdown">>
    /\ ~isPluginLoaded(lastPlg.path)
    /\ Cardinality(DOMAIN loadedPlugins) = 1
    /\ \A path \in PluginPaths :
          openHandles[path] = IF \E k \in DOMAIN loadedPlugins :
                                    loadedPlugins[k].info.path = path
                               THEN 1 ELSE 0

\* C30: reloadPlugin of a registered plugin unloads it and loads it again from
\* the path its descriptor recorded. When that load fails, reloadPlugin
\* returns the error of the load, the plugin is no longer registered and its
\* handle is closed; when it succeeds, exactly one descriptor of the plugin is
\* registered, under the same name and with the same path. The other plugins
\* are as before in both cases.
C30_ReloadStep ==
    \A pluginName \in PluginKeys :
        (ReloadPlugin(pluginName) /\ isPluginLoaded(pluginName))
        => LET path == loadedPlugins[pluginName].info.path
               others == DOMAIN loadedPlugins \ {pluginName}
               rest == [k \in others |-> loadedPlugins[k]]
               closed == [openHandles EXCEPT ![path] = @ - 1]
               load == loadPlugin(path, rest, closed, pluginErrors)
           IN
           /\ lastPlg'.ret = load.ret
           /\ \A k \in others :
                 k \in DOMAIN loadedPlugins' /\ loadedPlugins'[k] = loadedPlugins[k]
           /\ \A p \in PluginPaths \ {path} : openHandles'[p] = openHandles[p]
           /\ IF lastPlg'.ret = RAGGER_SUCCESS
              THEN /\ DOMAIN loadedPlugins' = DOMAIN loadedPlugins
                   /\ loadedPlugins'[pluginName].info.path = path
                   /\ Cardinality({k \in DOMAIN loadedPlugins' :
                                     loadedPlugins'[k].info.path = path}) = 1
                   /\ openHandles'[path] = 1
              ELSE /\ DOMAIN loadedPlugins' = others
                   /\ openHandles'[path] = 0

C30_ReloadIsUnloadThenLoad == [][C30_ReloadStep]_vars

\* a reload failed because the file of the plugin was gone: the plugin is no
\* longer registered while another one still is
C30_Witness ==
    /\ lastPlg.op = "reloadPlugin"
    /\ lastPlg.ret = RAGGER_ERROR_FILE_NOT_FOUND
    /\ lastPlg.calls = <<"plugin_shutdown">>
    /\ lastPlg.path = "alpha"
    /\ ~isPluginLoaded("alpha")
    /\ isPluginLoaded("beta")
    /\ openHandles["lib/alpha.so"] = 0

\* C31: after construction and after any addPluginDirectory,
\* setUserPluginDirectory, setProjectPluginDirectory or removePluginDirectory
\* call, the plugin directory list holds no directory twice, holds only
\* directories that existed when they were added, and holds them in the order
\* in which they were added.
C31_SearchPathWellFormed ==
    /\ \A i, j \in 1..Len(pluginDirectories) :
          i # j => pluginDirectories[i] # pluginDirectories[j]
    /\ \A i \in 1..Len(pluginDirectories) : addedAt[pluginDirectories[i]] > 0
    /\ \A i, j \in 1..Len(pluginDirectories) :
          i < j => addedAt[pluginDirectories[i]] < addedAt[pluginDirectories[j]]

\* C32: after removeFromIndex(path) succeeds no catalog row of path remains and
\* the hash cache holds neither a hash nor a computed-at time for path; the
\* rows and cache entries of the other paths are unchanged.
C32_RemoveStep ==
    \A path \in IndexPaths :
        (RemoveFromIndex(path) /\ lastIdx'.ret = RAGGER_SUCCESS)
        => /\ filesTable'[path] = NoRow
           /\ fileHashes'[path] = NoEntry
           /\ hashCache'[path] = NoTime
           /\ \A other \in IndexPaths \ {path} :
                 /\ filesTable'[other] = filesTable[other]
                 /\ fileHashes'[other] = fileHashes[other]
                 /\ hashCache'[other] = hashCache[other]

C32_RemoveLeavesNothing == [][C32_RemoveStep]_vars

\* C33: indexDirectory of an existing directory calls indexFile on every
\* eligible file found under it, at any depth, goes on with the remaining files
\* when indexFile fails on one, and returns the number of files indexed: the
\* eligible files under the directory whose catalog row holds the digest of
\* their bytes when the call returns. With the database open every readable
\* eligible file is among them.
C33_DirectoryStep ==
    \A directory \in Directories :
        (IndexDirectory(directory) /\ DirectoryExists(directory))
        => LET eligible == discoverFiles(directory)
               indexed == {path \in eligible :
                              /\ filesTable'[path] # NoRow
                              /\ filesTable'[path].hash = Sha256Hex(files[path].content)}
           IN /\ lastIdx'.ret = Cardinality(indexed)
              /\ \A path \in eligible : (db /\ files[path].readable) => path \in indexed

C33_DirectoryCountsIndexedFiles == [][C33_DirectoryStep]_vars

\* C34: in every state the index manager reaches, calculateFileHash called on
\* two different paths whose files are readable and hold the same bytes returns
\* the same digest for both, and called twice in a row on one readable file
\* returns the same digest twice.
C34_ContentAddressed ==
    \A p \in IndexPaths :
        (files[p] # NoFile /\ files[p].readable)
        => LET first == calculateFileHash(p, fileHashes, hashCache)
               again == calculateFileHash(p, first.hashes, first.cache)
           IN /\ again.hash = first.hash
              /\ \A q \in IndexPaths \ {p} :
                    (/\ files[q] # NoFile
                     /\ files[q].readable
                     /\ files[q].content = files[p].content)
                    => calculateFileHash(q, first.hashes, first.cache).hash = first.hash

\* C35: after rebuildIndex the catalog is empty and the hash cache holds
\* neither a hash nor a computed-at time, and needsReindexing answers true
\* for every file that was indexed before the call.
C35_RebuildStep ==
    RebuildIndex
    => /\ \A path \in IndexPaths :
             /\ filesTable'[path] = NoRow
             /\ fileHashes'[path] = NoEntry
             /\ hashCache'[path] = NoTime
       /\ \A path \in IndexPaths :
             indexedContent[path] # NoEntry
             => needsReindexing(path, fileHashes', hashCache').answer

C35_RebuildEmptiesEverything == [][C35_RebuildStep]_vars

\* the pooled connections no caller holds, as the inUse marks tell
FreeConnections(pool) == {i \in 1..Len(pool) : ~pool[i].inUse}

\* C36: getConnection gives the caller a pooled connection that was free and
\* marks it in use, or the primary connection when none is free;
\* returnConnection marks the pooled connection it is given free, so that a
\* later getConnection can give it out; and under every interleaving of the
\* callers no pooled connection is held by two of them at once.
C36_PoolStep ==
    /\ \A t \in Threads :
          GetConnection(t)
          => IF FreeConnections(connectionPool) = {}
             THEN held'[t] = Primary /\ connectionPool' = connectionPool
             ELSE /\ held'[t] \in FreeConnections(connectionPool)
                  /\ connectionPool'[held'[t]].inUse
                  /\ \A u \in Threads : held[u] # held'[t]
    /\ \A t \in Threads :
          (ReturnConnection(t) /\ held[t] # Primary)
          => /\ held[t] \in FreeConnections(connectionPool')
             /\ getConnection(connectionPool').db # Primary
    /\ \A t, u \in Threads :
          (t # u /\ held'[t] = held'[u]) => held'[t] \in {NoConnection, Primary}

C37_PoolSizeStep ==
    /\ Len(connectionPool') <= MAX_CONNECTIONS
    /\ (InitializeOpenFails \/ InitializeTablesFail) => connectionPool' = <<>>

C37_PoolHasFixedSize == [][C37_PoolSizeStep]_vars

\* the callbacks of a list of subscriptions
CallbacksOf(subs) == {subs[i].callback : i \in 1..Len(subs)}

\* C38: the worker matches a queued event against the subscription list as it
\* is when it dispatches the event, not as it was at the emission: with the
\* list as the worker found it when it popped the event, the subscriptions
\* invoked are the subscriptions of the event's type that the list holds at
\* the dispatch. A callback subscribed in between is invoked, one unsubscribed
\* in between is not.
C38_LateStep ==
    (WorkerDispatch /\ subscriptions = subsAtTake)
    => LET event == workerItem.event
           wanted == {i \in 1..Len(subscriptions) :
                        /\ subscriptions[i].type = event.type
                        /\ subscriptions[i].enabled
                        /\ subscriptions[i].filter \in {"", event.sourcePlugin}}
       IN /\ Len(workerCalls') = Cardinality(wanted)
          /\ \A i \in wanted :
                \E j \in 1..Len(workerCalls') : workerCalls'[j] = subscriptions[i]

C38_DispatchSeesCurrentSubscriptions == [][C38_LateStep]_vars

\* between the emission and the pop cbA was unsubscribed and cbB subscribed;
\* the worker invoked cbB and not cbA
C38_Witness ==
    /\ workerPc = "record"
    /\ CallbacksOf(subsAtEmit) = {"cbA"}
    /\ CallbacksOf(subsAtTake) = {"cbB"}
    /\ subscriptions = subsAtTake
    /\ CallbacksOf(workerCalls) = {"cbB"}

\* IndexManager::getIndexStats: fileCount is the size of fileHashes_
FileCount(hashes) == Cardinality({path \in IndexPaths : hashes[path] # NoEntry})

\* C39: needsReindexing is a query: a call changes neither the hash recorded
\* for any path, which later needsReindexing and indexFile calls compare
\* against, nor the file count getIndexStats reports.
C39_QueryStep ==
    \A path \in IndexPaths :
        NeedsReindexingCall(path)
        => /\ \A other \in IndexPaths : fileHashes'[other] = fileHashes[other]
           /\ FileCount(fileHashes') = FileCount(fileHashes)

C39_NeedsReindexingIsPure == [][C39_QueryStep]_vars

\* how often a call sequence holds the entry point
CallCount(calls, entry) == Cardinality({i \in 1..Len(calls) : calls[i] = entry})

\* C40: the shutdown hook of a module runs only after that module's
\* plugin_initialize returned success, and once per successful load: a
\* loadPlugin call runs it for no module it did not keep, unloadPlugin runs
\* it once for the plugin it removes, and unloadAllPlugins (the destructor's
\* body) runs it once for every registered module that exports it and leaves
\* no plugin registered and no handle open.
C40_LifecycleStep ==
    /\ \A path \in PluginPaths :
          LoadPlugin(path)
          => (CallCount(lastPlg'.calls, "plugin_shutdown") > 0
              => /\ CallCount(lastPlg'.calls, "plugin_initialize") = 1
                 /\ Modules(path).initResult = RAGGER_SUCCESS)
    /\ \A pluginName \in PluginKeys :
          (UnloadPlugin(pluginName) /\ pluginName \in DOMAIN loadedPlugins)
          => CallCount(lastPlg'.calls, "plugin_shutdown")
                = Len(ShutdownCalls(loadedPlugins[pluginName].info.path))
    /\ UnloadAllPlugins
       => /\ loadedPlugins' = << >>
          /\ \A path \in PluginPaths : openHandles'[path] = 0
          /\ CallCount(lastPlg'.calls, "plugin_shutdown")
                = Cardinality({k \in DOMAIN loadedPlugins :
                                  Modules(loadedPlugins[k].info.path).hasShutdown})

C40_ShutdownOnlyAfterInitialize == [][C40_LifecycleStep]_vars

====
